---- MODULE Spec2Model ----
(***************************************************************************)
(* A model of m3u-epg-editor (src/m3u-epg-editor-py3.py): the playlist     *)
(* parser, the matcher, the transform engine, the filter, the order        *)
(* engine, the playlist writer with its tvh-chnum numbering, and the guide *)
(* reconciler.                                                             *)
(*                                                                         *)
(* Text is modelled as a sequence of atoms.  An atom is one character      *)
(* ("b", "B", ".", ...) or one fixed token of the playlist grammar         *)
(* ("tvg-id=", "#EXTINF:", ...).  Python's None is the value None below.   *)
(***************************************************************************)
EXTENDS Integers, Sequences, FiniteSets, TLC

VARIABLES
    argv,         \* what the command line or the JSON configuration supplied
    call,         \* the pending call of a helper function (a record), or NoCall
    ret,          \* what that call returned, or NoRet
    pc,           \* where main() is: the call it makes next, or how it ended
    args,         \* the runtime arguments (validate_args' result)
    m3u_response, \* the playlist retrieved by get_m3u: status code and lines
    m3u_entries,  \* main's m3u_entries: the list of M3uItem objects
    files,        \* the files written to args.outdirectory, by name
    chnums,       \* the tvh-chnum numbers save_new_m3u wrote, in entry order
    epg_response, \* the response to the request for the source guide
    original_tree,\* the parsed source guide
    xml_tree,     \* what create_new_epg returned
    clock         \* the system clock

vars == <<argv, call, ret, pc, args, m3u_response, m3u_entries, files, chnums,
         epg_response, original_tree, xml_tree, clock>>

guide_vars == <<epg_response, original_tree, xml_tree, clock>>

\* no helper call is pending / the pending call has not returned
NoCall == [fn |-> "none"]
NoRet == [returned |-> FALSE]
Return(v) == [returned |-> TRUE, value |-> v]

----------------------------------------------------------------------------
(* Bounds of the model *)

\* longest candidate / value string given to the matcher and the transform engine
MaxStrLen == 3

\* most items (records and stray lines) of a drawn playlist
MaxItems == 2

\* most entries of a drawn entry list
MaxEntries == 2

----------------------------------------------------------------------------
(* Text *)

\* Python's None
None == <<"<None>">>

\* the TypeError / AttributeError a string operation raises on None
Raised == <<"<raised>">>

\* the letters of the model's alphabet; "B" and "C" are the upper case of "b" and "c"
Letters == {"b", "B", "c", "C"}

\* str.lower() on one character
LowerChar(ch) ==
    CASE ch = "B" -> "b"
      [] ch = "C" -> "c"
      [] OTHER -> ch

\* str.lower()
str_lower(s) == [i \in 1..Len(s) |-> LowerChar(s[i])]

\* the code point order of the characters, as Python compares strings
CodePoint(ch) ==
    CASE ch = " " -> 32
      [] ch = "\"" -> 34
      [] ch = "," -> 44
      [] ch = "." -> 46
      [] ch = "B" -> 66
      [] ch = "C" -> 67
      [] ch = "H" -> 72
      [] ch = "K" -> 75
      [] ch = "N" -> 78
      [] ch = "S" -> 83
      [] ch = "b" -> 98
      [] ch = "c" -> 99
      [] ch = "h" -> 104
      [] ch = "k" -> 107
      [] ch = "n" -> 110
      [] ch = "s" -> 115
      [] OTHER -> 200

\* s < t for two Python strings (lexicographic by code point)
RECURSIVE str_lt(_, _)
str_lt(s, t) ==
    IF Len(t) = 0 THEN FALSE
    ELSE IF Len(s) = 0 THEN TRUE
    ELSE IF CodePoint(Head(s)) # CodePoint(Head(t))
         THEN CodePoint(Head(s)) < CodePoint(Head(t))
    ELSE str_lt(Tail(s), Tail(t))

\* s[i:] (1-based, i may be Len(s)+1)
Drop(s, i) == SubSeq(s, i, Len(s))

\* p occurs in s at position i, character for character
LiteralAt(p, s, i) ==
    /\ i + Len(p) - 1 <= Len(s)
    /\ \A k \in 1..Len(p) : s[i + k - 1] = p[k]

\* Python's  p in s  for two strings
str_in(p, s) == \E i \in 1..(Len(s) + 1) : LiteralAt(p, s, i)

\* str.replace(p, r): every non-overlapping occurrence, left to right; an empty
\* p is found before every character and at the end
RECURSIVE str_replace_from(_, _, _, _)
str_replace_from(s, p, r, i) ==
    IF i > Len(s) THEN (IF Len(p) = 0 THEN r ELSE <<>>)
    ELSE IF Len(p) = 0 THEN r \o <<s[i]>> \o str_replace_from(s, p, r, i + 1)
    ELSE IF LiteralAt(p, s, i) THEN r \o str_replace_from(s, p, r, i + Len(p))
    ELSE <<s[i]>> \o str_replace_from(s, p, r, i + 1)

str_replace(s, p, r) == str_replace_from(s, p, r, 1)

\* The regular expressions of the model: a pattern is a sequence of literal
\* characters and of ".", which matches any one character.  ignorecase is
\* re.IGNORECASE.
ReCharMatches(pat_ch, ch, ignorecase) ==
    \/ pat_ch = "."
    \/ pat_ch = ch
    \/ ignorecase /\ LowerChar(pat_ch) = LowerChar(ch)

\* the pattern matches s at position i
ReMatchAt(p, s, i, ignorecase) ==
    /\ i + Len(p) - 1 <= Len(s)
    /\ \A k \in 1..Len(p) : ReCharMatches(p[k], s[i + k - 1], ignorecase)

\* re.search(p, s, flags) is not None
re_search(p, s, ignorecase) ==
    \E i \in 1..(Len(s) + 1) : ReMatchAt(p, s, i, ignorecase)

\* re.sub(p, r, s): every non-overlapping match, left to right (no flags)
RECURSIVE re_sub_from(_, _, _, _)
re_sub_from(p, r, s, i) ==
    IF i > Len(s) THEN (IF Len(p) = 0 THEN r ELSE <<>>)
    ELSE IF Len(p) = 0 THEN r \o <<s[i]>> \o re_sub_from(p, r, s, i + 1)
    ELSE IF ReMatchAt(p, s, i, FALSE) THEN r \o re_sub_from(p, r, s, i + Len(p))
    ELSE <<s[i]>> \o re_sub_from(p, r, s, i + 1)

re_sub(p, r, s) == re_sub_from(p, r, s, 1)

\* the strings over the letters, up to length n
RECURSIVE StrsUpTo(_)
StrsUpTo(n) ==
    IF n = 0 THEN {<<>>}
    ELSE LET shorter == StrsUpTo(n - 1)
         IN  shorter \cup {Append(s, ch) : s \in shorter, ch \in Letters}

\* the strings the drawn inputs are made of
S_b == <<"b">>
S_B == <<"B">>
S_c == <<"c">>
S_bc == <<"b", "c">>
S_bbc == <<"b", "b", "c">>
S_BBC == <<"B", "B", "C">>
S_b_c == <<"b", ".", "c">>
S_bdot == <<"b", ".">>
S_dot == <<".">>
S_cc == <<"c", "c">>
S_Bc == <<"B", "c">>
S_n == <<"n">>
S_s == <<"s">>
S_k == <<"k">>
S_N == <<"N">>
S_url == <<"http", "b">>
S_url_c == <<"http", "c">>

----------------------------------------------------------------------------
(* Entry model and attribute extractor *)

\* sys.maxsize, the default channel_idx (the largest integer of the model)
sys_maxsize == 2147483647

Q == "\""

SetMin(S) == CHOOSE x \in S : \A y \in S : x <= y

\* re.search(key + '"(.*?)"', m3u_fields, re.IGNORECASE): group(1) of the
\* leftmost match, the value up to the next quote; None without a match
AttrValue(m3u_fields, key) ==
    LET n == Len(m3u_fields)
        starts == {i \in 1..n : /\ i + 2 <= n
                                /\ LowerChar(m3u_fields[i]) = key
                                /\ m3u_fields[i + 1] = Q
                                /\ \E j \in (i + 2)..n : m3u_fields[j] = Q}
    IN  IF starts = {} THEN None
        ELSE LET i == SetMin(starts)
                 j == SetMin({k \in (i + 2)..n : m3u_fields[k] = Q})
             IN  SubSeq(m3u_fields, i + 2, j - 1)

\* re.search('" ?,(.*)$', m3u_fields, re.IGNORECASE).group(1); a failed search
\* raises AttributeError, which __init__ catches: name stays None
NameValue(m3u_fields) ==
    LET n == Len(m3u_fields)
        starts == {i \in 1..n :
                     /\ m3u_fields[i] = Q
                     /\ \/ i + 1 <= n /\ m3u_fields[i + 1] = ","
                        \/ i + 2 <= n /\ m3u_fields[i + 1] = " " /\ m3u_fields[i + 2] = ","}
    IN  IF starts = {} THEN None
        ELSE LET i == SetMin(starts)
                 comma == IF m3u_fields[i + 1] = "," THEN i + 1 ELSE i + 2
             IN  Drop(m3u_fields, comma + 1)

\* M3uItem.__init__(m3u_fields); m3u_fields is None or the text after the
\* #EXTINF prefix.  uid is no field of the program: it stands for the object's
\* identity and is set by parse_m3u when the item joins the list.
M3uItem(m3u_fields) ==
    LET has == m3u_fields # None
        tvg_name == IF has THEN AttrValue(m3u_fields, "tvg-name=") ELSE None
        name == IF has THEN NameValue(m3u_fields) ELSE None
    IN  [tvg_name |-> IF tvg_name = None \/ tvg_name = <<>> THEN name ELSE tvg_name,
         tvg_id |-> IF has THEN AttrValue(m3u_fields, "tvg-id=") ELSE None,
         tvg_logo |-> IF has THEN AttrValue(m3u_fields, "tvg-logo=") ELSE None,
         group_title |-> IF has THEN AttrValue(m3u_fields, "group-title=") ELSE None,
         timeshift |-> IF has THEN AttrValue(m3u_fields, "timeshift=") ELSE None,
         catchup_days |-> IF has THEN AttrValue(m3u_fields, "catchup-days=") ELSE None,
         catchup |-> IF has THEN AttrValue(m3u_fields, "catchup=") ELSE None,
         catchup_source |-> IF has THEN AttrValue(m3u_fields, "catchup-source=") ELSE None,
         name |-> name,
         url |-> None,
         group_idx |-> 0,
         channel_idx |-> sys_maxsize,
         uid |-> 0]

\* M3uItem.is_valid(self, allow_no_tvg_id)
is_valid(entry, allow_no_tvg_id) ==
    LET isvalid == /\ entry.tvg_name # None /\ entry.tvg_name # <<>>
                   /\ entry.group_title # None /\ entry.group_title # <<>>
    IN  IF ~allow_no_tvg_id
        THEN isvalid /\ entry.tvg_id # None /\ entry.tvg_id # <<>>
        ELSE isvalid

\* line.split('#EXTINF:0 ')[1] if line.startswith('#EXTINF:0') else
\* line.split('#EXTINF:-1 ')[1]; Raised is the IndexError of a line that does
\* not hold the separator
ExtinfFields(line) ==
    IF Len(line) >= 2 /\ line[2] = "0"
    THEN (IF Len(line) >= 3 /\ line[3] = " " THEN Drop(line, 4) ELSE Raised)
    ELSE IF Len(line) >= 3 /\ line[2] = "-1" /\ line[3] = " " THEN Drop(line, 4)
    ELSE Raised

\* The for loop of parse_m3u from line i on.  st holds the loop's variables:
\* entry, m3u_entries, and raised (the except clause was entered: the loop is
\* left for good).  The first line of the file is line 1, so the loop starts
\* at line 2; an appended item's uid is the number of its url line.
RECURSIVE parse_lines(_, _, _, _)
parse_lines(lines, i, st, allow_no_tvg_id) ==
    IF i > Len(lines) \/ st.raised THEN st
    ELSE LET line == lines[i]
         IN  IF Len(line) > 0 /\ line[1] = "#EXTINF:"
             THEN LET m3u_fields == ExtinfFields(line)
                  IN  IF m3u_fields = Raised
                      THEN [st EXCEPT !.raised = TRUE]
                      ELSE parse_lines(lines, i + 1,
                                       [st EXCEPT !.entry = M3uItem(m3u_fields)],
                                       allow_no_tvg_id)
             ELSE IF Len(line) # 0
             THEN LET entry == [st.entry EXCEPT !.url = line, !.uid = i]
                  IN  parse_lines(lines, i + 1,
                          [st EXCEPT !.entry = M3uItem(None),
                                     !.m3u_entries =
                                         IF is_valid(entry, allow_no_tvg_id)
                                         THEN Append(st.m3u_entries, entry)
                                         ELSE st.m3u_entries],
                          allow_no_tvg_id)
             ELSE parse_lines(lines, i + 1, st, allow_no_tvg_id)

\* parse_m3u(m3u_filename, args): the list of the valid items of the file
parse_m3u(lines, allow_no_tvg_id) ==
    IF Len(lines) = 0 \/ "#EXTM3U" \notin {lines[1][k] : k \in 1..Len(lines[1])}
    THEN <<>>
    ELSE parse_lines(lines, 2,
                     [entry |-> M3uItem(None), m3u_entries |-> <<>>, raised |-> FALSE],
                     allow_no_tvg_id).m3u_entries

\* load_m3u(args): None (NoEntries) unless the GET returned status 200
NoEntries == <<>>

load_m3u(response, allow_no_tvg_id) ==
    IF response.status_code = 200
    THEN parse_m3u(response.lines, allow_no_tvg_id)
    ELSE NoEntries

----------------------------------------------------------------------------
(* Matcher *)

\* With no exact member, is_item_matched falls back to the regex stage.
is_item_matched_exact_only(item_list, item_name) ==
    IF Cardinality(item_list) > 0 THEN item_name \in item_list ELSE FALSE

\* is_item_matched(item_list, item_name); item_list is the rule collection
is_item_matched(item_list, item_name) ==
    IF Cardinality(item_list) > 0
    THEN LET matched == item_name \in item_list
         IN  IF ~matched
             THEN \E regex_str \in item_list : re_search(regex_str, item_name, TRUE)
             ELSE matched
    ELSE FALSE

----------------------------------------------------------------------------
(* Transform engine *)

\* one rule of a transforms list: {src_value: replacement_value}
Rule(src, repl) == [src_value |-> src, replacement_value |-> repl]

\* The elif of transform_string_value hung on the inner if: the substring and
\* regex stages run whenever the exact-compare value does not equal src_value.
transform_item_step_elif_inner(string_value, compare_value, transform_item) ==
    LET src_value == transform_item.src_value
        replacement_value == transform_item.replacement_value
    IN  IF string_value = Raised THEN Raised
        ELSE IF compare_value # None /\ compare_value = src_value
        THEN replacement_value
        ELSE IF string_value = None THEN Raised
        ELSE IF str_in(src_value, string_value)
        THEN str_replace(string_value, src_value, replacement_value)
        ELSE re_sub(src_value, replacement_value, string_value)

\* the body of the for loop of transform_string_value, for one transform_item
transform_item_step(string_value, compare_value, transform_item) ==
    LET src_value == transform_item.src_value
        replacement_value == transform_item.replacement_value
    IN  IF string_value = Raised THEN Raised
        ELSE IF compare_value # None
        THEN (IF compare_value = src_value THEN replacement_value ELSE string_value)
        ELSE IF string_value = None THEN Raised
        ELSE IF str_in(src_value, string_value)
        THEN str_replace(string_value, src_value, replacement_value)
        ELSE re_sub(src_value, replacement_value, string_value)

\* transform_string_value(string_value, compare_value, transforms)
RECURSIVE transform_string_value(_, _, _)
transform_string_value(string_value, compare_value, transforms) ==
    IF Len(transforms) = 0 THEN string_value
    ELSE transform_string_value(
             transform_item_step(string_value, compare_value, Head(transforms)),
             compare_value, Tail(transforms))

----------------------------------------------------------------------------
(* Filter pipeline *)

\* Python compares tuples item by item: <<x1, x2>> < <<y1, y2>> for two
\* string pairs and for two integer pairs
StrPairLt(x1, x2, y1, y2) == str_lt(x1, y1) \/ (x1 = y1 /\ str_lt(x2, y2))
IntPairLt(x1, x2, y1, y2) == x1 < y1 \/ (x1 = y1 /\ x2 < y2)

\* key(x) < key(y) for the sort keys of the program:
\*   "tvg_name": lambda entry: entry.tvg_name
\*   "idx":      lambda entry: (entry.group_idx, entry.channel_idx)
\*   "title":    lambda entry: (entry.group_title, entry.tvg_name)
\*   "id":       lambda ch_elem: (ch_elem.tag, ch_elem.get('id'))
\*   "m3u":      lambda ch_elem: (ch_elem.tag, [...].index(ch_elem.get('id').lower()))
\* (every ch_elem is a channel element, so the tag never decides)
KeyLt(key, x, y) ==
    CASE key = "tvg_name" -> str_lt(x.tvg_name, y.tvg_name)
      [] key = "idx" -> IntPairLt(x.group_idx, x.channel_idx, y.group_idx, y.channel_idx)
      [] key = "id" -> str_lt(x.id, y.id)
      [] key = "m3u" -> x.rank < y.rank
      [] OTHER -> StrPairLt(x.group_title, x.tvg_name, y.group_title, y.tvg_name)

\* an insertion that puts an item before the items it is not greater than, so
\* that items of equal keys end in reverse order
RECURSIVE InsertBeforeEquals(_, _, _)
InsertBeforeEquals(sorted_seq, x, key) ==
    IF Len(sorted_seq) = 0 THEN <<x>>
    ELSE IF ~KeyLt(key, Head(sorted_seq), x) THEN <<x>> \o sorted_seq
    ELSE <<Head(sorted_seq)>> \o InsertBeforeEquals(Tail(sorted_seq), x, key)

\* sorted(seq, key=...): Python's sort is stable, an item goes behind the
\* items it is not smaller than
RECURSIVE InsertStable(_, _, _)
InsertStable(sorted_seq, x, key) ==
    IF Len(sorted_seq) = 0 THEN <<x>>
    ELSE IF KeyLt(key, x, Head(sorted_seq)) THEN <<x>> \o sorted_seq
    ELSE <<Head(sorted_seq)>> \o InsertStable(Tail(sorted_seq), x, key)

RECURSIVE SortedInto(_, _, _)
SortedInto(done, rest, key) ==
    IF Len(rest) = 0 THEN done
    ELSE SortedInto(InsertStable(done, Head(rest), key), Tail(rest), key)

sorted(seq, key) == SortedInto(<<>>, seq, key)

\* The include-override lists count only together with the group test.
entry_survives_no_override(a, m3u_entry) ==
    LET group_matched == is_item_matched(a.groups, m3u_entry.group_title)
        group_included == IF a.groupmode = "keep" THEN group_matched
                          ELSE IF a.groupmode = "discard" THEN ~group_matched
                          ELSE FALSE
        channel_discarded == is_item_matched(a.discard_channels, m3u_entry.tvg_name)
        channel_always_kept == is_item_matched(a.include_channels, m3u_entry.tvg_name)
        url_discarded == is_item_matched(a.discard_urls, m3u_entry.url)
        url_always_kept == is_item_matched(a.include_urls, m3u_entry.url)
        always_kept == channel_always_kept \/ url_always_kept
    IN  group_included /\ ~channel_discarded /\ ~url_discarded /\ always_kept

\* the condition of filter_m3u_entries' if: the entry is kept
entry_survives(a, m3u_entry) ==
    LET group_matched == is_item_matched(a.groups, m3u_entry.group_title)
        group_included == IF a.groupmode = "keep" THEN group_matched
                          ELSE IF a.groupmode = "discard" THEN ~group_matched
                          ELSE FALSE
        channel_discarded == is_item_matched(a.discard_channels, m3u_entry.tvg_name)
        channel_always_kept == is_item_matched(a.include_channels, m3u_entry.tvg_name)
        url_discarded == is_item_matched(a.discard_urls, m3u_entry.url)
        url_always_kept == is_item_matched(a.include_urls, m3u_entry.url)
        always_kept == channel_always_kept \/ url_always_kept
    IN  (group_included /\ ~channel_discarded /\ ~url_discarded) \/ always_kept

\* the four transform_string_value assignments to a kept entry, in their order
transform_entry(a, m3u_entry) ==
    [m3u_entry EXCEPT
        !.tvg_id = transform_string_value(m3u_entry.tvg_id, m3u_entry.tvg_name,
                                          a.id_transforms),
        !.group_title = transform_string_value(m3u_entry.group_title, None,
                                               a.group_transforms),
        !.tvg_name = transform_string_value(m3u_entry.tvg_name, None,
                                            a.channel_transforms),
        !.name = transform_string_value(m3u_entry.name, None, a.channel_transforms)]

EntryRaised(e) == Raised \in {e.tvg_id, e.group_title, e.tvg_name, e.name}

\* The for loop of filter_m3u_entries over the entries left.  st holds
\* filtered_m3u_entries, the lines written to original.channels.txt, and raised
\* (a transform raised: the exception leaves the function).
RECURSIVE filter_loop(_, _, _)
filter_loop(a, entries, st) ==
    IF Len(entries) = 0 \/ st.raised THEN st
    ELSE LET m3u_entry == Head(entries)
             line == <<m3u_entry.tvg_name, m3u_entry.group_title>>
             listed == [st EXCEPT !.all_channels = Append(@, line)]
         IN  IF entry_survives(a, m3u_entry)
             THEN LET transformed == transform_entry(a, m3u_entry)
                  IN  IF EntryRaised(transformed)
                      THEN [listed EXCEPT !.raised = TRUE]
                      ELSE filter_loop(a, Tail(entries),
                               [listed EXCEPT !.filtered = Append(@, transformed)])
             ELSE filter_loop(a, Tail(entries), listed)

\* filter_m3u_entries(args, m3u_entries): the loop's final state
filter_m3u_entries(a, entries) ==
    IF Len(entries) > 0
    THEN filter_loop(a, IF ~a.no_sort THEN sorted(entries, "tvg_name") ELSE entries,
                     [filtered |-> <<>>, all_channels |-> <<>>, raised |-> FALSE])
    ELSE [filtered |-> <<>>, all_channels |-> <<>>, raised |-> FALSE]

----------------------------------------------------------------------------
(* Order engine *)

\* the inner loop of the group loop of sort_m3u_entries: every item of the
\* group gets the group's index
SetGroupIdx(entries, group_title, idx) ==
    [i \in 1..Len(entries) |->
        IF entries[i].group_title = group_title
        THEN [entries[i] EXCEPT !.group_idx = idx]
        ELSE entries[i]]

\* the group loop of sort_m3u_entries: idx counts the groups of args.group_idx
\* from 1
RECURSIVE assign_group_idx(_, _, _)
assign_group_idx(entries, group_idx, idx) ==
    IF Len(group_idx) = 0 THEN entries
    ELSE assign_group_idx(SetGroupIdx(entries, Head(group_idx), idx + 1),
                          Tail(group_idx), idx + 1)

\* next((x for x in m3u_entries if x.tvg_name.lower() == sort_channel.lower()),
\* None): the position of the first such item, 0 for None
FirstNamed(entries, sort_channel) ==
    LET hits == {i \in 1..Len(entries) :
                    str_lower(entries[i].tvg_name) = str_lower(sort_channel)}
    IN  IF hits = {} THEN 0 ELSE SetMin(hits)

\* the channel loop of sort_m3u_entries: idx counts args.sortchannels from 0
RECURSIVE assign_channel_idx(_, _, _)
assign_channel_idx(entries, sortchannels, idx) ==
    IF Len(sortchannels) = 0 THEN entries
    ELSE LET at == FirstNamed(entries, Head(sortchannels))
             next_entries == IF at # 0
                             THEN [entries EXCEPT ![at].channel_idx = idx]
                             ELSE entries
         IN  assign_channel_idx(next_entries, Tail(sortchannels), idx + 1)

\* The ranks are assigned and the list is left in the order it came in.
sort_m3u_entries_ranks_only(a, entries) ==
    LET grouped == assign_group_idx(entries, a.group_idx, 0)
    IN  IF Len(a.sortchannels) > 0
        THEN assign_channel_idx(grouped, a.sortchannels, 0)
        ELSE grouped

\* sort_m3u_entries(args, m3u_entries)
sort_m3u_entries(a, entries) ==
    LET grouped == assign_group_idx(entries, a.group_idx, 0)
    IN  IF Len(a.sortchannels) > 0
        THEN sorted(assign_channel_idx(grouped, a.sortchannels, 0), "idx")
        ELSE sorted(grouped, "title")

----------------------------------------------------------------------------
(* Playlist writer *)

S_None == <<"N", "o", "n", "e">>

\* '%s' % value
Fmt(value) == IF value = None THEN S_None ELSE value

\* the text  key="value"  with the blank before it, as save_new_m3u appends it
MetaAttr(key, value) == <<" ", key, Q>> \o Fmt(value) \o <<Q>>

\* an attribute that is written unless its value is None
OptAttr(key, value) == IF value = None THEN <<>> ELSE MetaAttr(key, value)

\* the logo save_new_m3u writes for an entry
LogoOf(a, entry) ==
    IF a.http_for_images /\ entry.tvg_logo # None
    THEN (IF Len(entry.tvg_logo) > 0 /\ entry.tvg_logo[1] = "http"
          THEN entry.tvg_logo ELSE <<>>)
    ELSE entry.tvg_logo

\* the metadata line of an entry; chnum is the tvh-chnum text or None
EntryMeta(a, entry, chnum) ==
    <<"#EXTINF:", "-1">>
    \o OptAttr("tvh-chnum=", chnum)
    \o (IF entry.tvg_id # None
        THEN MetaAttr("tvg-id=", IF ~a.preserve_case THEN str_lower(entry.tvg_id)
                                 ELSE entry.tvg_id)
        ELSE <<>>)
    \o MetaAttr("tvg-name=", entry.tvg_name)
    \o OptAttr("tvg-logo=", LogoOf(a, entry))
    \o OptAttr("group-title=", entry.group_title)
    \o OptAttr("timeshift=", entry.timeshift)
    \o OptAttr("catchup-days=", entry.catchup_days)
    \o OptAttr("catchup=", entry.catchup)
    \o OptAttr("catchup-source=", entry.catchup_source)
    \o <<",">> \o Fmt(entry.name)

\* the outcome of the counter step: the new idx, or the exception raised
Idx(n) == [raised |-> FALSE, idx |-> n]
ZeroDivisionError == [raised |-> TRUE, idx |-> 0]

\* The group boundary leaves the counter where it is.
next_chnum_no_rollover(a, idx, same_group) == Idx(idx + 1)

\* a counter that moves to the next multiple of the offset on a group boundary
\* and does not add one to it
next_chnum_no_increment(a, idx, same_group) ==
    IF same_group THEN Idx(idx + 1)
    ELSE IF a.tvh_offset = 0 THEN ZeroDivisionError
    ELSE Idx(a.tvh_offset * ((idx \div a.tvh_offset) + 1))

\* the tvh-chnum counter after one entry: idx += 1 within a group, and at a
\* group boundary idx = tvh_offset * (idx // tvh_offset + 1), then idx += 1
next_chnum(a, idx, same_group) ==
    IF same_group THEN Idx(idx + 1)
    ELSE IF a.tvh_offset = 0 THEN ZeroDivisionError
    ELSE Idx(a.tvh_offset * ((idx \div a.tvh_offset) + 1) + 1)

\* The for loop of save_new_m3u over the entries left.  st holds idx,
\* group_title, the lines written to the two files, the numbers written (in
\* entry order), and raised.
RECURSIVE save_loop(_, _, _)
save_loop(a, entries, st) ==
    IF Len(entries) = 0 \/ st.raised THEN st
    ELSE LET entry == Head(entries)
             numbering == a.tvh_start > 0 \/ a.tvh_offset > 0
             step == IF numbering
                     THEN next_chnum(a, st.idx, entry.group_title = st.group_title)
                     ELSE Idx(st.idx)
         IN  IF step.raised THEN [st EXCEPT !.raised = TRUE]
             ELSE save_loop(a, Tail(entries),
                     [st EXCEPT
                         !.idx = step.idx,
                         !.group_title = entry.group_title,
                         !.chnums = IF numbering THEN Append(@, step.idx) ELSE @,
                         !.m3u = @ \o <<EntryMeta(a, entry,
                                           IF numbering THEN <<ToString(step.idx)>>
                                           ELSE None),
                                        Fmt(entry.url)>>,
                         !.channels = Append(@, <<Fmt(entry.tvg_name),
                                                  Fmt(entry.group_title)>>)])

\* save_new_m3u(args, m3u_entries): the loop's final state
save_new_m3u(a, entries) ==
    save_loop(a, entries,
              [idx |-> a.tvh_start, group_title |-> entries[1].group_title,
               chnums |-> <<>>, m3u |-> <<<<"#EXTM3U">>>>, channels |-> <<>>,
               raised |-> FALSE])

----------------------------------------------------------------------------
(* Guide reconciler *)

\* Time is counted in half hours, so that a timestamp can lie within an hour.
Hours(h) == h + h

\* datetime.timedelta(days=365 * 10)
TenYears == Hours(24 * 365 * 10)

\* strftime("%Y%m%d%H0000 %z") and the reading of the text: the minutes and
\* the seconds are lost
strftime_hour(t) == t - (t % Hours(1))

\* A start attribute: a time with a UTC offset, a time without one, or no
\* attribute.
Aware(t) == [kind |-> "aware", t |-> t]
Naive(t) == [kind |-> "naive", t |-> t]
NoStart == [kind |-> "missing", t |-> 0]

\* the source guide's elements; src tells the elements of the source apart
SourceChannel(id) == [id |-> id, display_name |-> S_B, icon |-> S_b, src |-> 0]
\* an element below a programme element: its tag, its text, an attribute and
\* its child elements
SubElement(tag, children) ==
    [tag |-> tag, text |-> S_b, lang |-> S_c, children |-> children]

SourceProgramme(channel, start) ==
    [channel |-> channel, start |-> start, src |-> 0, children |-> <<>>]

Guide(has_root, channels, programmes) ==
    [has_root |-> has_root,
     channels |-> [i \in 1..Len(channels) |-> [channels[i] EXCEPT !.src = i]],
     programmes |-> [i \in 1..Len(programmes) |-> [programmes[i] EXCEPT !.src = i]]]

NoGuide == Guide(FALSE, <<>>, <<>>)

\* The clock: its reading when the guide stage starts, and tick_at, the number
\* of the reading (counted within create_new_epg) from which on it reads one
\* unit later; 0 when it does not advance during the stage.
ClockRead(c, r) == c.now + (IF c.tick_at # 0 /\ r >= c.tick_at THEN 1 ELSE 0)

\* The window without its two ends.
is_in_range_exclusive(a, timestamp, now) ==
    now - Hours(a.range) < timestamp /\ timestamp < now + Hours(a.range)

\* is_in_range(args, timestamp), with the clock reading of the call
is_in_range(a, timestamp, now) ==
    LET range_start == now - Hours(a.range)
        range_end == now + Hours(a.range)
    IN  range_start <= timestamp /\ timestamp <= range_end

\* Of each identifier the first entry is kept.
RECURSIVE unique_from_first_wins(_, _, _)
unique_from_first_wins(entries, i, acc) ==
    IF i > Len(entries) THEN acc
    ELSE IF \E j \in 1..(i - 1) :
                str_lower(entries[j].tvg_id) = str_lower(entries[i].tvg_id)
         THEN unique_from_first_wins(entries, i + 1, acc)
         ELSE unique_from_first_wins(entries, i + 1, Append(acc, entries[i]))

\* {e.tvg_id.lower(): e for e in m3u_entries}.values(): one entry for every
\* lowercased identifier, in the order the identifiers first occur, and of
\* each identifier the last entry
RECURSIVE unique_from(_, _, _)
unique_from(entries, i, acc) ==
    IF i > Len(entries) THEN acc
    ELSE LET same == {j \in 1..Len(entries) :
                         str_lower(entries[j].tvg_id) = str_lower(entries[i].tvg_id)}
         IN  IF \E j \in same : j < i
             THEN unique_from(entries, i + 1, acc)
             ELSE unique_from(entries, i + 1,
                      Append(acc, entries[CHOOSE j \in same : \A k \in same : k <= j]))

tvg_id_unique_entries(entries) == unique_from(entries, 1, <<>>)

\* any(x.tvg_id.lower() == channel_id.lower() for x in tvg_id_unique_entries)
channel_matches(unique_entries, channel_id) ==
    \E i \in 1..Len(unique_entries) :
        str_lower(unique_entries[i].tvg_id) = str_lower(channel_id)

\* the new channel element of a source channel
new_channel(a, channel) ==
    [id |-> IF ~a.preserve_case THEN str_lower(channel.id) ELSE channel.id,
     display_name |-> transform_string_value(channel.display_name, None,
                                             a.channel_transforms),
     icon |-> IF a.http_for_images
              THEN (IF Len(channel.icon) > 0 /\ channel.icon[1] = "http"
                    THEN channel.icon ELSE <<>>)
              ELSE channel.icon,
     src |-> channel.src, rank |-> 0]

\* the loop over original_root.iter('channel'); st holds created_channels and
\* the channel elements of new_root
RECURSIVE copy_channels(_, _, _, _)
copy_channels(a, unique_entries, channels, st) ==
    IF Len(channels) = 0 THEN st
    ELSE LET channel == Head(channels)
             channel_created == \E i \in 1..Len(st.created_channels) :
                                    st.created_channels[i] = channel.id
         IN  IF /\ channel.id # None /\ channel.id # <<>>
                /\ ~channel_created
                /\ channel_matches(unique_entries, channel.id)
             THEN copy_channels(a, unique_entries, Tail(channels),
                      [created_channels |-> Append(st.created_channels, channel.id),
                       channels |-> Append(st.channels, new_channel(a, channel))])
             ELSE copy_channels(a, unique_entries, Tail(channels), st)

\* entry.tvg_id is None or entry.tvg_id == "" or entry.tvg_id == "None"
has_no_tvg_id(entry) == entry.tvg_id = None \/ entry.tvg_id = <<>> \/ entry.tvg_id = S_None

\* the channel elements made from the tvg-name of the entries without an
\* identifier (no_tvg_id and force_epg)
RECURSIVE pseudo_channels(_)
pseudo_channels(entries) ==
    IF Len(entries) = 0 THEN <<>>
    ELSE (IF has_no_tvg_id(Head(entries))
          THEN <<[id |-> Head(entries).tvg_name, display_name |-> Head(entries).tvg_name,
                  icon |-> None, src |-> 0, rank |-> 0]>>
          ELSE <<>>) \o pseudo_channels(Tail(entries))

\* [x.tvg_id.lower() for x in tvg_id_unique_entries].index(id.lower()), from
\* 0; -1 stands for the ValueError of a value that is not in the list
m3u_index(unique_entries, id) ==
    LET at == {i \in 1..Len(unique_entries) :
                  str_lower(unique_entries[i].tvg_id) = str_lower(id)}
    IN  IF at = {} THEN 0 - 1 ELSE SetMin(at) - 1

\* the channel element sorting; raised when the m3u sort meets a channel that
\* is not in the list of identifiers
sort_channels(a, unique_entries, channels) ==
    IF Len(channels) = 0 \/ a.xml_sort_type \notin {"alpha", "m3u"}
    THEN [raised |-> FALSE, channels |-> channels]
    ELSE IF a.xml_sort_type = "alpha"
    THEN [raised |-> FALSE, channels |-> sorted(channels, "id")]
    ELSE LET ranked == [i \in 1..Len(channels) |->
                           [channels[i] EXCEPT
                               !.rank = m3u_index(unique_entries, channels[i].id)]]
         IN  IF \E i \in 1..Len(ranked) : ranked[i].rank < 0
             THEN [raised |-> TRUE, channels |-> channels]
             ELSE [raised |-> FALSE, channels |-> sorted(ranked, "m3u")]

\* the channel attributes of the source programmes forced to lowercase
lower_programmes(programmes) ==
    [i \in 1..Len(programmes) |->
        IF programmes[i].channel # None
        THEN [programmes[i] EXCEPT !.channel = str_lower(@)]
        ELSE programmes[i]]

\* create_channel_dictionary(epg_root)[key]: the programmes of the channel, in
\* document order; <<>> stands for a key that is not in the dictionary
channel_dictionary(programmes, key) ==
    LET OfKey(p) == p.channel = key
    IN  SelectSeq(programmes, OfKey)

\* the copy of a child of a programme's child: tag, text and attributes
copy_sub_sub_elem(sub_sub_elem) == [sub_sub_elem EXCEPT !.children = <<>>]

\* the copy of a programme's child: tag, text, attributes and its children
copy_sub_elem(sub_elem) ==
    [sub_elem EXCEPT !.children =
        [i \in 1..Len(sub_elem.children) |-> copy_sub_sub_elem(sub_elem.children[i])]]

\* The loop over channel_programmes.  st holds the programme elements of
\* new_root, the number of clock readings so far, the latest start timestamp
\* found, the range checks made, the entries with no programmes in the guide,
\* and raised (the
\* exception of a start attribute that cannot be read, or of a time without a
\* UTC offset compared with the latest start timestamp, which has one).
RECURSIVE copy_programmes(_, _, _, _)
copy_programmes(a, c, channel_programmes, st) ==
    IF Len(channel_programmes) = 0 \/ st.raised THEN st
    ELSE LET elem == Head(channel_programmes)
             now == ClockRead(c, st.reads + 1)
         IN  IF elem.start.kind # "aware" THEN [st EXCEPT !.raised = TRUE]
             ELSE copy_programmes(a, c, Tail(channel_programmes),
                      [st EXCEPT
                          !.reads = @ + 1,
                          !.checks = Append(@, [src |-> elem.src, now |-> now]),
                          !.max_programme_start_timestamp =
                              IF elem.start.t > @ THEN elem.start.t ELSE @,
                          !.programmes =
                              IF is_in_range(a, elem.start.t, now)
                              THEN Append(@, [channel |-> elem.channel,
                                              start |-> elem.start,
                                              src |-> elem.src, now |-> now,
                                              children |->
                                                  [i \in 1..Len(elem.children) |->
                                                      copy_sub_elem(elem.children[i])]])
                              ELSE @])

\* the loop over tvg_id_unique_entries that copies the programmes
RECURSIVE copy_entries_programmes(_, _, _, _, _)
copy_entries_programmes(a, c, programmes, unique_entries, st) ==
    IF Len(unique_entries) = 0 \/ st.raised THEN st
    ELSE LET entry == Head(unique_entries)
             channel_name == IF ~a.preserve_case THEN str_lower(entry.tvg_id)
                             ELSE entry.tvg_id
             channel_programmes == channel_dictionary(programmes, channel_name)
             unreported == a.no_tvg_id /\ a.force_epg
         IN  IF ~has_no_tvg_id(entry) /\ Len(channel_programmes) > 0
             THEN copy_entries_programmes(a, c, programmes, Tail(unique_entries),
                      copy_programmes(a, c, channel_programmes, st))
             ELSE copy_entries_programmes(a, c, programmes, Tail(unique_entries),
                      [st EXCEPT !.no_epg_channels =
                                     IF unreported THEN @ ELSE Append(@, entry)])

\* A programme of one hour.
pseudo_programme_one_hour(entry, programme_start_timestamp, now) ==
    [channel |-> entry.tvg_name,
     start |-> Aware(strftime_hour(programme_start_timestamp)),
     stop |-> Aware(strftime_hour(programme_start_timestamp + Hours(1))),
     title |-> entry.tvg_name, desc |-> entry.tvg_name,
     src |-> 0, now |-> now, ts |-> programme_start_timestamp]

\* the programme element made for an entry without an identifier: start and
\* stop are written with strftime, the channel, the title and the desc are
\* the tvg-name; now is the clock reading of its range check and ts the
\* timestamp that was checked
pseudo_programme(entry, programme_start_timestamp, now) ==
    [channel |-> entry.tvg_name,
     start |-> Aware(strftime_hour(programme_start_timestamp)),
     stop |-> Aware(strftime_hour(programme_start_timestamp + Hours(2))),
     title |-> entry.tvg_name, desc |-> entry.tvg_name,
     src |-> 0, now |-> now, ts |-> programme_start_timestamp]

\* for i in range(1, 168): a programme of two hours for every pass in which
\* the start is in range; left is the number of passes left.  A pass whose
\* start is out of range leaves the start where it is, so once the clock reads
\* the same from then on, the passes left make a programme for every start up
\* to the first one out of range, and only read the clock after it.
RECURSIVE pseudo_programmes(_, _, _, _, _, _)
pseudo_programmes(a, c, entry, programme_start_timestamp, left, st) ==
    IF left = 0 THEN st
    ELSE LET now == ClockRead(c, st.reads + 1)
         IN  IF c.tick_at = 0 \/ st.reads + 1 >= c.tick_at
             THEN LET start_of(k) == programme_start_timestamp + k * Hours(2)
                      made == Cardinality({k \in 0..(left - 1) :
                                  \A j \in 0..k : is_in_range(a, start_of(j), now)})
                  IN  [st EXCEPT
                          !.reads = @ + left,
                          !.programmes =
                              @ \o [k \in 1..made |->
                                       pseudo_programme(entry, start_of(k - 1), now)]]
             ELSE IF is_in_range(a, programme_start_timestamp, now)
             THEN pseudo_programmes(a, c, entry, programme_start_timestamp + Hours(2),
                      left - 1,
                      [st EXCEPT
                          !.reads = @ + 1,
                          !.programmes =
                              Append(@, pseudo_programme(entry,
                                            programme_start_timestamp, now))])
             ELSE pseudo_programmes(a, c, entry, programme_start_timestamp, left - 1,
                      [st EXCEPT !.reads = @ + 1])

\* the loop over m3u_entries that makes programmes for the entries without an
\* identifier (no_tvg_id and force_epg)
RECURSIVE pseudo_entries_programmes(_, _, _, _)
pseudo_entries_programmes(a, c, entries, st) ==
    IF Len(entries) = 0 THEN st
    ELSE IF ~has_no_tvg_id(Head(entries))
    THEN pseudo_entries_programmes(a, c, Tail(entries), st)
    ELSE LET programme_start_timestamp == ClockRead(c, st.reads + 1)
             seen == [st EXCEPT
                         !.reads = @ + 1,
                         !.max_programme_start_timestamp =
                             IF programme_start_timestamp > @ THEN @
                             ELSE programme_start_timestamp]
         IN  pseudo_entries_programmes(a, c, Tail(entries),
                 pseudo_programmes(a, c, Head(entries), programme_start_timestamp,
                                   167, seen))

\* None for the tree create_new_epg returns; a tree holds its channel and
\* programme elements and, for reading the run, the latest start timestamp
\* found and the clock reading of every range check of a source programme
NoTree ==
    [is_none |-> TRUE, channels |-> <<>>, programmes |-> <<>>,
     max_programme_start_timestamp |-> 0, checks |-> <<>>]

\* create_new_epg(args, original_epg_filename, m3u_entries) on the parsed
\* source guide, with the clock c.  fatal: the exception raised before the try
\* statement (the tvg_id of an entry is None).  The result also holds the
\* source tree as the function leaves it and the no_epg_channels list.
create_new_epg(a, guide, entries, c) ==
    IF \E i \in 1..Len(entries) : entries[i].tvg_id = None
    THEN [fatal |-> TRUE, tree |-> NoTree, original |-> guide, no_epg_channels |-> <<>>]
    ELSE IF ~guide.has_root
    THEN [fatal |-> FALSE, tree |-> NoTree, original |-> guide, no_epg_channels |-> <<>>]
    ELSE
    LET unique_entries == tvg_id_unique_entries(entries)
        pseudo == a.no_tvg_id /\ a.force_epg
        copied == copy_channels(a, unique_entries, guide.channels,
                                [created_channels |-> <<>>, channels |-> <<>>]).channels
        created == copied \o (IF pseudo THEN pseudo_channels(entries) ELSE <<>>)
        epg_channel_count == Len(created)
        sorted_channels == sort_channels(a, unique_entries, created)
        original == IF epg_channel_count > 0 /\ ~sorted_channels.raised
                       /\ Len(guide.programmes) > 0 /\ ~a.preserve_case
                    THEN [guide EXCEPT !.programmes = lower_programmes(@)]
                    ELSE guide
        start == [programmes |-> <<>>, reads |-> 1, checks |-> <<>>,
                  max_programme_start_timestamp |-> ClockRead(c, 1) - TenYears,
                  no_epg_channels |-> <<>>, raised |-> FALSE]
        copied_programmes == copy_entries_programmes(a, c, original.programmes,
                                                     unique_entries, start)
        done == IF pseudo /\ ~copied_programmes.raised
                THEN pseudo_entries_programmes(a, c, entries, copied_programmes)
                ELSE copied_programmes
    IN  IF sorted_channels.raised \/ done.raised
        THEN [fatal |-> FALSE, tree |-> NoTree, original |-> original,
              no_epg_channels |-> <<>>]
        ELSE [fatal |-> FALSE,
              tree |-> [is_none |-> FALSE, channels |-> sorted_channels.channels,
                        programmes |-> done.programmes,
                        max_programme_start_timestamp |->
                            done.max_programme_start_timestamp,
                        checks |-> done.checks],
              original |-> original, no_epg_channels |-> done.no_epg_channels]

----------------------------------------------------------------------------
(* main: the runtime arguments and the playlist stage *)

\* the arguments as validate_args leaves them when only the mandatory ones are
\* given (the argparse defaults)
DefaultArgs ==
    [groups |-> {}, group_idx |-> <<>>, groupmode |-> "keep",
     discard_channels |-> {}, include_channels |-> {},
     discard_urls |-> {}, include_urls |-> {},
     id_transforms |-> <<>>, group_transforms |-> <<>>, channel_transforms |-> <<>>,
     range |-> 168, sortchannels |-> <<>>, xml_sort_type |-> "none",
     tvh_start |-> 0, tvh_offset |-> 0,
     no_tvg_id |-> FALSE, no_epg |-> FALSE, force_epg |-> FALSE, no_sort |-> FALSE,
     http_for_images |-> FALSE, preserve_case |-> FALSE]

\* an option as it was supplied: given or left out, and its number
Given(n) == [given |-> TRUE, value |-> n]
NotGiven == [given |-> FALSE, value |-> 0]

\* what was supplied: the mandatory arguments (usable or not), whether the
\* settings come from a JSON configuration file, and the numbering options
Argv(mandatory, json_cfg, tvh_start, tvh_offset) ==
    [mandatory |-> mandatory, json_cfg |-> json_cfg,
     tvh_start |-> tvh_start, tvh_offset |-> tvh_offset]

NoArgv == Argv(TRUE, FALSE, NotGiven, NotGiven)

\* the numbering options as validate_args leaves them: from the JSON
\* configuration (hydrate_args_from_json) tvh_start as it is and tvh_offset
\* minus one, from the command line int(tvh_start) - 1 and int(tvh_offset)
validate_args(a, supplied) ==
    IF supplied.json_cfg
    THEN [a EXCEPT
             !.tvh_start = IF supplied.tvh_start.given THEN supplied.tvh_start.value ELSE 0,
             !.tvh_offset = IF supplied.tvh_offset.given
                            THEN supplied.tvh_offset.value - 1 ELSE 0]
    ELSE [a EXCEPT
             !.tvh_start = IF supplied.tvh_start.given
                           THEN supplied.tvh_start.value - 1 ELSE 0,
             !.tvh_offset = IF supplied.tvh_offset.given
                            THEN supplied.tvh_offset.value ELSE 0]

\* args = validate_args(); abort_process(..., 1, args) when a mandatory
\* argument is missing or the output directory is unusable
ValidateArgs ==
    /\ pc = "validate_args"
    /\ args' = validate_args(args, argv)
    /\ pc' = IF argv.mandatory THEN "load_m3u" ELSE "exit_1"
    /\ UNCHANGED <<argv, call, ret, m3u_response, m3u_entries, files, chnums>>
    /\ UNCHANGED guide_vars

\* save_log(args), the last statement of main
SaveLog ==
    /\ pc = "save_log"
    /\ pc' = "done"
    /\ UNCHANGED <<argv, call, ret, args, m3u_response, m3u_entries, files, chnums>>
    /\ UNCHANGED guide_vars

\* the other stages are not running
IdleCall == call = NoCall /\ ret = NoRet /\ argv = NoArgv

\* no playlist was retrieved
NoResponse == [status_code |-> 0, items |-> <<>>, lines |-> <<>>]

\* the files of the output directory; none is written yet
FileNames == {"original.channels.txt", "m3u8", "channels.txt", "no_epg_channels.txt", "xml"}
NoFiles == [f \in FileNames |-> [written |-> FALSE, content |-> <<>>]]
Written(content) == [written |-> TRUE, content |-> content]

\* m3u_entries = load_m3u(args)
LoadM3u ==
    /\ pc = "load_m3u"
    /\ m3u_entries' = load_m3u(m3u_response, args.no_tvg_id)
    /\ pc' = "filter_m3u_entries"
    /\ UNCHANGED <<argv, call, ret, args, m3u_response, files, chnums>>
    /\ UNCHANGED guide_vars

\* a main that retrieves the guide also when the filter left no entry
AfterFilter_guide_regardless(a, filtered) ==
    IF Len(filtered) > 0
    THEN (IF ~a.no_sort THEN "sort_m3u_entries" ELSE "save_new_m3u")
    ELSE IF ~a.no_epg THEN "load_epg" ELSE "save_log"

\* where main goes after filter_m3u_entries returned the list
AfterFilter(a, filtered) ==
    IF Len(filtered) > 0
    THEN (IF ~a.no_sort THEN "sort_m3u_entries" ELSE "save_new_m3u")
    ELSE "save_log"

\* m3u_entries = filter_m3u_entries(args, m3u_entries); an exception that
\* leaves it reaches sys.excepthook: handle_exception, exit code 2
FilterM3u ==
    /\ pc = "filter_m3u_entries"
    /\ LET st == filter_m3u_entries(args, m3u_entries)
       IN  /\ files' = IF Len(m3u_entries) > 0
                       THEN [files EXCEPT !["original.channels.txt"] =
                                              Written(st.all_channels)]
                       ELSE files
           /\ IF st.raised
              THEN pc' = "exit_2" /\ UNCHANGED m3u_entries
              ELSE /\ m3u_entries' = st.filtered
                   /\ pc' = AfterFilter(args, st.filtered)
    /\ UNCHANGED <<argv, call, ret, args, m3u_response, chnums>>
    /\ UNCHANGED guide_vars

\* an entry as parse_m3u appends it: valid, with its url and identity
Entry(uid, tvg_name, tvg_id, group_title, name, url) ==
    [M3uItem(None) EXCEPT !.uid = uid, !.tvg_name = tvg_name, !.tvg_id = tvg_id,
                          !.group_title = group_title, !.name = name, !.url = url]

\* the list of the entries of the given shapes, numbered in list order
Numbered(shapes) == [i \in 1..Len(shapes) |-> [shapes[i] EXCEPT !.uid = i]]

\* m3u_entries = sort_m3u_entries(args, m3u_entries)
SortM3u ==
    /\ pc = "sort_m3u_entries"
    /\ m3u_entries' = sort_m3u_entries(args, m3u_entries)
    /\ pc' = "save_new_m3u"
    /\ UNCHANGED <<argv, call, ret, args, m3u_response, files, chnums>>
    /\ UNCHANGED guide_vars

\* save_new_m3u(args, m3u_entries); what it wrote before an exception stays in
\* the files (the with blocks close them)
SaveNewM3u ==
    /\ pc = "save_new_m3u"
    /\ LET st == save_new_m3u(args, m3u_entries)
       IN  /\ files' = [files EXCEPT !["m3u8"] = Written(st.m3u),
                                     !["channels.txt"] = Written(st.channels)]
           /\ chnums' = st.chnums
           /\ pc' = IF st.raised THEN "exit_2"
                    ELSE IF ~args.no_epg THEN "load_epg"
                    ELSE "save_log"
    /\ UNCHANGED <<argv, call, ret, args, m3u_response, m3u_entries>>
    /\ UNCHANGED guide_vars

\* the response to the guide request and the clock while no guide stage runs
NoEpgResponse == [status_code |-> 0, guide |-> NoGuide]
NoClock == [now |-> 0, tick_at |-> 0]

NoGuideStage ==
    /\ epg_response = NoEpgResponse
    /\ original_tree = NoGuide
    /\ xml_tree = NoTree
    /\ clock = NoClock

\* epg_filename = load_epg(args): the file is saved when the status code is
\* 200, and is None otherwise
LoadEpg ==
    /\ pc = "load_epg"
    /\ IF epg_response.status_code = 200
       THEN original_tree' = epg_response.guide /\ pc' = "create_new_epg"
       ELSE UNCHANGED original_tree /\ pc' = "save_log"
    /\ UNCHANGED <<argv, call, ret, args, m3u_response, m3u_entries, files, chnums,
                   epg_response, xml_tree, clock>>

\* xml_tree = create_new_epg(args, epg_filename, m3u_entries); the exception
\* raised before its try statement reaches sys.excepthook
CreateNewEpg ==
    /\ pc = "create_new_epg"
    /\ LET r == create_new_epg(args, original_tree, m3u_entries, clock)
       IN  /\ original_tree' = r.original
           /\ xml_tree' = r.tree
           /\ files' = IF Len(r.no_epg_channels) > 0
                       THEN [files EXCEPT !["no_epg_channels.txt"] =
                                Written([i \in 1..Len(r.no_epg_channels) |->
                                            <<Fmt(r.no_epg_channels[i].tvg_name),
                                              Fmt(r.no_epg_channels[i].tvg_id)>>])]
                       ELSE files
           /\ pc' = IF r.fatal THEN "exit_2"
                    ELSE IF r.tree.is_none THEN "save_log"
                    ELSE "save_new_epg"
    /\ clock' = [now |-> clock.now + (IF clock.tick_at # 0 THEN 1 ELSE 0), tick_at |-> 0]
    /\ UNCHANGED <<argv, call, ret, args, m3u_response, m3u_entries, chnums, epg_response>>

\* save_new_epg(args, xml_tree)
SaveNewEpg ==
    /\ pc = "save_new_epg"
    /\ files' = [files EXCEPT !["xml"] = Written(<<xml_tree.channels, xml_tree.programmes>>)]
    /\ pc' = "save_log"
    /\ UNCHANGED <<argv, call, ret, args, m3u_response, m3u_entries, chnums>>
    /\ UNCHANGED guide_vars

----------------------------------------------------------------------------
(* Drawn playlists *)


\* How one item of a drawn playlist was written: a record (a metadata line and
\* a url line), a metadata line with no url line, a url line with no metadata
\* line, or a blank line.  prefix "bad" is the header "#EXTINF:-1,B" (no
\* blank after -1).  An attribute of None is not written.
RecordItem(prefix, tvg_name, tvg_id, group_title, tail) ==
    [kind |-> "record", prefix |-> prefix, tvg_name |-> tvg_name, tvg_id |-> tvg_id,
     group_title |-> group_title, tail |-> tail]

AttrText(key, value) == IF value = None THEN <<>> ELSE <<" ", key, Q>> \o value \o <<Q>>

\* the metadata line of an item
MetaLine(item) ==
    IF item.prefix = "bad" THEN <<"#EXTINF:", "-1", ",", "B">>
    ELSE LET attrs == AttrText("tvg-id=", item.tvg_id)
                      \o AttrText("tvg-name=", item.tvg_name)
                      \o AttrText("group-title=", item.group_title)
         IN  <<"#EXTINF:", item.prefix>>
             \o (IF Len(attrs) = 0 THEN <<" ">> ELSE attrs)
             \o (IF item.tail THEN <<",">> \o S_Bc ELSE <<>>)

\* the lines of an item
ItemLines(item) ==
    CASE item.kind = "record" -> <<MetaLine(item), S_url>>
      [] item.kind = "header" -> <<MetaLine(item)>>
      [] item.kind = "url" -> <<S_url>>
      [] OTHER -> <<<<>>>>

RECURSIVE ItemsLines(_)
ItemsLines(items) ==
    IF Len(items) = 0 THEN <<>> ELSE ItemLines(Head(items)) \o ItemsLines(Tail(items))

AttrCombos ==
    {<<S_B, S_b, S_n>>, <<None, S_b, S_n>>, <<<<>>, S_b, S_n>>, <<S_B, None, S_n>>,
     <<S_B, <<>>, S_n>>, <<S_B, S_b, None>>, <<S_B, S_b, <<>>>>, <<None, None, None>>}

PlaylistItems ==
    {RecordItem(prefix, c[1], c[2], c[3], tail) :
         prefix \in {"-1", "0"}, c \in AttrCombos, tail \in BOOLEAN}
    \cup {RecordItem("bad", None, None, None, TRUE)}
    \cup {[RecordItem("-1", S_B, S_b, S_n, TRUE) EXCEPT !.kind = k] :
              k \in {"header", "url", "blank"}}

RECURSIVE SeqsUpTo(_, _)
SeqsUpTo(S, n) ==
    IF n = 0 THEN {<<>>}
    ELSE LET shorter == SeqsUpTo(S, n - 1)
         IN  shorter \cup {Append(q, x) : q \in shorter, x \in S}

\* the retrieved playlists: status 200 and a file of items after the #EXTM3U
\* line, a file that does not start with #EXTM3U, or another status code
Responses ==
    {[status_code |-> 200, items |-> items, lines |-> <<<<"#EXTM3U">>>> \o ItemsLines(items)] :
         items \in SeqsUpTo(PlaylistItems, MaxItems)}
    \cup {[status_code |-> code, items |-> items, lines |-> ItemsLines(items)] :
              code \in {200, 404}, items \in {<<RecordItem("-1", S_B, S_b, S_n, TRUE)>>}}

InitParse ==
    /\ IdleCall
    /\ pc = "load_m3u"
    /\ args \in {[DefaultArgs EXCEPT !.no_tvg_id = b] : b \in BOOLEAN}
    /\ m3u_response \in Responses
    /\ m3u_entries = <<>>
    /\ files = NoFiles
    /\ chnums = <<>>
    /\ NoGuideStage

SpecParse == InitParse /\ [][LoadM3u]_vars

----------------------------------------------------------------------------
(* Claims about the parser *)

\* the file line of the url line of item k (line 1 is the #EXTM3U line)
RECURSIVE C2_LinesBefore(_, _)
C2_LinesBefore(items, k) ==
    IF k = 1 THEN 1 ELSE C2_LinesBefore(items, k - 1) + Len(ItemLines(items[k - 1]))

C2_UrlLine(items, k) ==
    C2_LinesBefore(items, k) + (IF items[k].kind = "record" THEN 2 ELSE 1)

\* the metadata line that a url line written after item k belongs to: the
\* nearest line before it, blank lines apart, if that is a metadata line
RECURSIVE C2_MetaBefore(_, _)
C2_MetaBefore(items, k) ==
    IF k = 0 THEN [kind |-> "none"]
    ELSE IF items[k].kind = "blank" THEN C2_MetaBefore(items, k - 1)
    ELSE IF items[k].kind = "header" THEN items[k]
    ELSE [kind |-> "none"]

\* the records of the playlist: the items that end with a url line, each with
\* the metadata line it follows
C2_Records(items) == {k \in 1..Len(items) : items[k].kind \in {"record", "url"}}

C2_MetaOf(items, k) ==
    IF items[k].kind = "record" THEN items[k] ELSE C2_MetaBefore(items, k - 1)

\* the validity rule on a record as it was written: display name (the tvg-name
\* attribute or, without one, the trailing text) and group label non-empty,
\* and the identifier non-empty unless missing identifiers are allowed
C2_RecordValid(meta, allow_no_tvg_id) ==
    /\ meta.kind # "none"
    /\ meta.prefix # "bad"
    /\ meta.tvg_name \notin {None, <<>>} \/ meta.tail
    /\ meta.group_title \notin {None, <<>>}
    /\ allow_no_tvg_id \/ meta.tvg_id \notin {None, <<>>}

\* parse_m3u has returned the list of a file that starts with #EXTM3U
C2_Parsed ==
    /\ pc = "filter_m3u_entries"
    /\ m3u_response.status_code = 200
    /\ Len(m3u_response.lines) > 0
    /\ m3u_response.lines[1] = <<"#EXTM3U">>

C2_ResultUids == {m3u_entries[i].uid : i \in 1..Len(m3u_entries)}

\* C2: parse_m3u puts a record in its result if and only if its display name
\* and group label are non-empty and, unless no_tvg_id, its identifier is
\* non-empty.
C2_ResultIffValid ==
    C2_Parsed =>
        LET items == m3u_response.items
        IN  C2_ResultUids =
                {C2_UrlLine(items, k) : k \in
                    {r \in C2_Records(items) :
                        C2_RecordValid(C2_MetaOf(items, r), args.no_tvg_id)}}

\* the items written before the first metadata line that raises in parse_m3u
C2_ReadBefore(items, k) ==
    \A j \in 1..k : items[j].kind \in {"record", "header"} => items[j].prefix # "bad"

\* C2 on the records parse_m3u reads: among the records up to the first
\* metadata line that makes the loop raise, the result holds exactly the valid
\* ones, and every entry of the result passes the validity rule.
C2_ReadRecordsIffValid ==
    C2_Parsed =>
        LET items == m3u_response.items
        IN  /\ C2_ResultUids =
                {C2_UrlLine(items, k) : k \in
                    {r \in C2_Records(items) :
                        /\ C2_ReadBefore(items, r)
                        /\ C2_RecordValid(C2_MetaOf(items, r), args.no_tvg_id)}}
            /\ \A i \in 1..Len(m3u_entries) :
                  /\ m3u_entries[i].tvg_name \notin {None, <<>>}
                  /\ m3u_entries[i].group_title \notin {None, <<>>}
                  /\ args.no_tvg_id \/ m3u_entries[i].tvg_id \notin {None, <<>>}

\* a metadata line that parse_m3u cannot split is written before item k
C15_MalformedBefore(items, k) ==
    \E j \in 1..(k - 1) : items[j].kind \in {"record", "header"} /\ items[j].prefix = "bad"

\* C15: a metadata line that cannot be split makes parse_m3u skip that record
\* only: every valid record written after such a line is in the result.
C15_RecordsAfterMalformedKept ==
    C2_Parsed =>
        LET items == m3u_response.items
        IN  \A r \in C2_Records(items) :
                (/\ C15_MalformedBefore(items, r)
                 /\ C2_RecordValid(C2_MetaOf(items, r), args.no_tvg_id))
                    => C2_UrlLine(items, r) \in C2_ResultUids

----------------------------------------------------------------------------
(* The filter on drawn entry lists and rule sets *)

\* the entries: names B, c and k (k is an entry whose metadata line has no
\* trailing text, so its name is None), two urls, two groups
FilterShapes ==
    {Entry(0, nm, S_b, g, IF nm = S_k THEN None ELSE nm, u) :
         nm \in {S_B, S_c, S_k}, g \in {S_n, S_s}, u \in {S_url, S_url_c}}

\* the rule sets: the discard lists name B and the url http b, the
\* include-override lists match c
FilterArgs ==
    {[DefaultArgs EXCEPT
         !.groups = g, !.groupmode = mode, !.no_sort = ns,
         !.discard_channels = IF lists \in {"all", "discard"} THEN {S_B} ELSE {},
         !.discard_urls = IF lists \in {"all", "discard"} THEN {S_url} ELSE {},
         !.include_channels = IF lists \in {"all", "include"} THEN {S_c} ELSE {},
         !.include_urls = IF lists \in {"all", "include"} THEN {S_c} ELSE {},
         !.id_transforms = IF tr THEN <<Rule(S_B, S_c)>> ELSE <<>>,
         !.group_transforms = IF tr THEN <<Rule(S_n, S_N)>> ELSE <<>>,
         !.channel_transforms = IF tr THEN <<Rule(S_c, S_cc)>> ELSE <<>>] :
       g \in {{S_n}, {S_n, S_s}}, mode \in {"keep", "discard", "other"},
       ns \in BOOLEAN, lists \in {"all", "none", "discard", "include"},
       tr \in BOOLEAN}

InitFilter ==
    /\ IdleCall
    /\ pc = "filter_m3u_entries"
    /\ args \in FilterArgs
    /\ m3u_response = NoResponse
    /\ m3u_entries \in {Numbered(shapes) : shapes \in SeqsUpTo(FilterShapes, MaxEntries)}
    /\ files = NoFiles
    /\ chnums = <<>>
    /\ NoGuideStage

SpecFilter == InitFilter /\ [][FilterM3u]_vars

\* the survival rule as C1 states it
C1_Survives(a, entry) ==
    LET groupMatched == is_item_matched(a.groups, entry.group_title)
        groupIncluded == IF a.groupmode = "keep" THEN groupMatched ELSE ~groupMatched
        channelDiscarded == is_item_matched(a.discard_channels, entry.tvg_name)
        urlDiscarded == is_item_matched(a.discard_urls, entry.url)
        channelKept == is_item_matched(a.include_channels, entry.tvg_name)
        urlKept == is_item_matched(a.include_urls, entry.url)
    IN  (groupIncluded /\ ~channelDiscarded /\ ~urlDiscarded) \/ channelKept \/ urlKept

C1_Uids(entries) == {entries[i].uid : i \in 1..Len(entries)}

\* C1: in keep and discard mode, the list filter_m3u_entries returns holds an
\* entry if and only if (groupIncluded and not channelDiscarded and not
\* urlDiscarded) or channelKept or urlKept; so an entry of an excluded group
\* or on a discard list survives when an include-override list matches it.
C1_FilterKeepsIff ==
    [][(FilterM3u /\ pc' # "exit_2" /\ args.groupmode \in {"keep", "discard"}) =>
          C1_Uids(m3u_entries') =
              {m3u_entries[i].uid : i \in
                  {j \in 1..Len(m3u_entries) : C1_Survives(args, m3u_entries[j])}}]_vars

\* C1 witness: the filter returned an entry whose group is excluded (keep
\* mode, group not matched) and whose url is on the discard list, kept because
\* its url matches the include-override list
C1_Witness ==
    /\ pc \in {"sort_m3u_entries", "save_new_m3u"}
    /\ args.groupmode = "keep"
    /\ args.group_transforms = <<>>
    /\ \E i \in 1..Len(m3u_entries) :
          /\ ~is_item_matched(args.groups, m3u_entries[i].group_title)
          /\ is_item_matched(args.include_urls, m3u_entries[i].url)
          /\ ~is_item_matched(args.include_channels, m3u_entries[i].tvg_name)

----------------------------------------------------------------------------
(* The order engine on the lists the filter returns *)

MaxSorted == 3

\* the entries: names B and c, groups n, s and k
SortShapes ==
    {Entry(0, nm, S_b, g, nm, S_url) : nm \in {S_B, S_c}, g \in {S_n, S_s, S_k}}

\* the configured group lists (keep mode), with or without the
\* include-override on the name c, and the explicit channel orders
SortArgs ==
    {[DefaultArgs EXCEPT
         !.group_idx = gi, !.groups = {gi[i] : i \in 1..Len(gi)},
         !.include_channels = ic, !.sortchannels = sc] :
       gi \in {<<S_n, S_s>>, <<S_s, S_n>>, <<S_n>>},
       ic \in {{}, {S_c}},
       sc \in {<<>>, <<S_c>>, <<S_b, S_c>>, <<S_c, S_B>>}}

InitSort ==
    /\ IdleCall
    /\ pc = "filter_m3u_entries"
    /\ args \in SortArgs
    /\ m3u_response = NoResponse
    /\ m3u_entries \in {Numbered(shapes) : shapes \in SeqsUpTo(SortShapes, MaxSorted)}
    /\ files = NoFiles
    /\ chnums = <<>>
    /\ NoGuideStage

NextSort == FilterM3u \/ SortM3u

SpecSort == InitSort /\ [][NextSort]_vars

\* the group of entry i is one of the configured groups
C10_Listed(i) ==
    \E n \in 1..Len(args.group_idx) : args.group_idx[n] = m3u_entries[i].group_title

\* C10: after sort_m3u_entries with an explicit channel order (ranks are the
\* sort key), an entry whose group is the Nth configured group has group rank
\* N, and every entry whose group is not configured keeps the default rank and
\* stands after all entries whose group is configured.
C10_UnlistedAfterListed ==
    (pc = "save_new_m3u" /\ Len(args.sortchannels) > 0) =>
        /\ \A i \in 1..Len(m3u_entries) :
              IF C10_Listed(i)
              THEN /\ m3u_entries[i].group_idx \in 1..Len(args.group_idx)
                   /\ args.group_idx[m3u_entries[i].group_idx] = m3u_entries[i].group_title
              ELSE m3u_entries[i].group_idx = M3uItem(None).group_idx
        /\ \A i, j \in 1..Len(m3u_entries) :
              (C10_Listed(i) /\ ~C10_Listed(j)) => i < j

\* the configured channels (counted from 0) that entry i is named by,
\* letter case apart
C11_Named(i) ==
    {n \in 0..(Len(args.sortchannels) - 1) :
        str_lower(args.sortchannels[n + 1]) = str_lower(m3u_entries[i].tvg_name)}

\* C11: after sort_m3u_entries with an explicit channel order, every entry
\* whose display name is the Nth configured channel (letter case apart) has
\* channel rank N (from 0), also when several entries have that name; every
\* other entry keeps the maximal default rank and stands after the ranked
\* entries of its group.
C11_EveryNamedEntryRanked ==
    (pc = "save_new_m3u" /\ Len(args.sortchannels) > 0) =>
        /\ \A i \in 1..Len(m3u_entries) :
              IF C11_Named(i) # {}
              THEN m3u_entries[i].channel_idx \in C11_Named(i)
              ELSE m3u_entries[i].channel_idx = M3uItem(None).channel_idx
        /\ \A i, j \in 1..Len(m3u_entries) :
              (/\ m3u_entries[i].group_title = m3u_entries[j].group_title
               /\ C11_Named(i) # {} /\ C11_Named(j) = {}) => i < j

\* C12: the list sort_m3u_entries returns is non-decreasing in (group rank,
\* channel rank) with an explicit channel order, and in (group label, display
\* name) without one.
C12_SortedByKey ==
    pc = "save_new_m3u" =>
        \A i, j \in 1..Len(m3u_entries) :
            i < j =>
                LET x == m3u_entries[i]
                    y == m3u_entries[j]
                IN  IF Len(args.sortchannels) > 0
                    THEN \/ x.group_idx < y.group_idx
                         \/ x.group_idx = y.group_idx /\ x.channel_idx <= y.channel_idx
                    ELSE \/ str_lt(x.group_title, y.group_title)
                         \/ /\ x.group_title = y.group_title
                            /\ ~str_lt(y.tvg_name, x.tvg_name)

\* the group labels of the list as it was before the run (uid: the place in
\* that list) and as it is now
C12_GroupBefore(k) ==
    LET i == CHOOSE n \in 1..Len(m3u_entries) : m3u_entries[n].uid = k
    IN  m3u_entries[i].group_title

\* C12 witness: groups n and s configured in this order, the entries came in
\* the groups s, n, s and stand in the groups n, s, s after the sort
C12_Witness ==
    /\ pc = "save_new_m3u"
    /\ args.group_idx = <<S_n, S_s>>
    /\ Len(m3u_entries) = 3
    /\ <<C12_GroupBefore(1), C12_GroupBefore(2), C12_GroupBefore(3)>> = <<S_s, S_n, S_s>>
    /\ [i \in 1..3 |-> m3u_entries[i].group_title] = <<S_n, S_s, S_s>>
    /\ [i \in 1..3 |-> m3u_entries[i].group_idx] = <<1, 2, 2>>

\* the place of the entry of identity k in the list
C27_Place(entries, k) == CHOOSE n \in 1..Len(entries) : entries[n].uid = k

\* two entries have equal sort keys
C27_EqualKeys(key, x, y) == ~KeyLt(key, x, y) /\ ~KeyLt(key, y, x)

\* C27: sort_m3u_entries returns a permutation of the entries it was given,
\* changes no field of an entry but group_idx and channel_idx, and leaves
\* entries of equal sort keys in the order they had in the list it was given
\* (the list filter_m3u_entries sorted by display name).
C27_PermutationRanksOnly ==
    [][SortM3u =>
        LET before == m3u_entries
            after == m3u_entries'
            key == IF Len(args.sortchannels) > 0 THEN "idx" ELSE "title"
        IN  /\ Len(after) = Len(before)
            /\ \A i, j \in 1..Len(before) : i # j => before[i].uid # before[j].uid
            /\ \A m, n \in 1..Len(after) : m # n => after[m].uid # after[n].uid
            /\ \A i \in 1..Len(before) :
                  \E n \in 1..Len(after) :
                      [after[n] EXCEPT !.group_idx = before[i].group_idx,
                                       !.channel_idx = before[i].channel_idx] = before[i]
            /\ \A m, n \in 1..Len(after) :
                  (m < n /\ C27_EqualKeys(key, after[m], after[n])) =>
                      C27_Place(before, after[m].uid) < C27_Place(before, after[n].uid)
    ]_vars

\* C27 witness: no explicit channel order; the entries came in the groups s, n,
\* s with one name; after the sort the second stands first and the two of the
\* group s, whose keys are equal, follow in the order they came in, with
\* nothing changed but the group ranks
C27_Witness ==
    /\ pc = "save_new_m3u"
    /\ args.sortchannels = <<>>
    /\ args.group_idx = <<S_n, S_s>>
    /\ m3u_entries = <<[Entry(2, S_B, S_b, S_n, S_B, S_url) EXCEPT !.group_idx = 1],
                       [Entry(1, S_B, S_b, S_s, S_B, S_url) EXCEPT !.group_idx = 2],
                       [Entry(3, S_B, S_b, S_s, S_B, S_url) EXCEPT !.group_idx = 2]>>

----------------------------------------------------------------------------
(* Channel numbering, from the supplied options to the playlist file *)

MaxNumbered == 5

\* the supplied numbering options
NumberingStarts == {NotGiven, Given(0), Given(1), Given(2), Given(5)}
NumberingOffsets == {NotGiven, Given(0), Given(1), Given(2), Given(10)}

\* the playlists: records named B in the groups n and s, in any order
NumberedResponses ==
    {[status_code |-> 200, items |-> items, lines |-> <<<<"#EXTM3U">>>> \o ItemsLines(items)] :
        items \in {[i \in 1..Len(gs) |-> RecordItem("-1", S_B, S_b, gs[i], TRUE)] :
                      gs \in SeqsUpTo({S_n, S_s}, MaxNumbered)}}

InitNumbering ==
    /\ call = NoCall
    /\ ret = NoRet
    /\ pc = "validate_args"
    /\ \/ /\ argv \in {Argv(TRUE, j, st, off) :
                          j \in BOOLEAN, st \in NumberingStarts, off \in NumberingOffsets}
          /\ m3u_response \in NumberedResponses
       \/ /\ argv = Argv(FALSE, FALSE, NotGiven, NotGiven)
          /\ m3u_response = NoResponse
    /\ args \in {[DefaultArgs EXCEPT !.groups = {S_n, S_s}, !.group_idx = <<S_n, S_s>>,
                                     !.no_epg = TRUE, !.no_sort = ns] : ns \in BOOLEAN}
    /\ m3u_entries = <<>>
    /\ files = NoFiles
    /\ chnums = <<>>
    /\ NoGuideStage

NextNumbering == ValidateArgs \/ LoadM3u \/ FilterM3u \/ SortM3u \/ SaveNewM3u \/ SaveLog

SpecNumbering == InitNumbering /\ [][NextNumbering]_vars

\* save_new_m3u has run to its end
C8_Saved == files["m3u8"].written /\ pc # "exit_2"

\* the number of entry i by the rule of C8: one more than the seed for the
\* first entry, one more than the previous number within a group, and
\* offset * (previous // offset + 1) + 1 on a group boundary
RECURSIVE C8_Number(_)
C8_Number(i) ==
    IF i = 1 THEN args.tvh_start + 1
    ELSE IF m3u_entries[i].group_title = m3u_entries[i - 1].group_title
         THEN C8_Number(i - 1) + 1
         ELSE args.tvh_offset * ((C8_Number(i - 1) \div args.tvh_offset) + 1) + 1

\* the metadata line of entry i in the playlist file starts with the number n
C8_LineHasNumber(i, n) ==
    LET line == files["m3u8"].content[2 * i]
    IN  /\ Len(line) >= 7
        /\ SubSeq(line, 1, 7) = <<"#EXTINF:", "-1", " ", "tvh-chnum=", Q, ToString(n), Q>>

\* C8: with a per-group offset > 0 the numbers save_new_m3u writes follow the
\* running counter: +1 while consecutive entries share a group, and on a group
\* boundary offset * (counter // offset + 1), then +1; on the command line
\* path the first number is the supplied start value (1 without one).
C8_CounterRule ==
    (C8_Saved /\ args.tvh_offset > 0) =>
        /\ Len(chnums) = Len(m3u_entries)
        /\ \A i \in 1..Len(m3u_entries) :
              /\ chnums[i] = C8_Number(i)
              /\ C8_LineHasNumber(i, chnums[i])
        /\ ~argv.json_cfg =>
              chnums[1] = IF argv.tvh_start.given THEN argv.tvh_start.value ELSE 1

\* C8 witness: start 1 and offset 10 on the command line, two entries of one
\* group and then three of another: 1, 2 and 11, 12, 13
C8_Witness ==
    /\ C8_Saved
    /\ argv = Argv(TRUE, FALSE, Given(1), Given(10))
    /\ Len(m3u_entries) = 5
    /\ m3u_entries[2].group_title = m3u_entries[1].group_title
    /\ m3u_entries[3].group_title # m3u_entries[2].group_title
    /\ m3u_entries[4].group_title = m3u_entries[3].group_title
    /\ m3u_entries[5].group_title = m3u_entries[3].group_title
    /\ chnums = <<1, 2, 11, 12, 13>>

\* C9: with a start value other than the default and no per-group offset,
\* save_new_m3u completes and numbers the entries sequentially, group
\* boundaries included; with neither a start nor an offset it writes no number.
C9_SequentialCompletes ==
    /\ (pc = "exit_2" \/ files["m3u8"].written) /\ args.tvh_offset = 0 /\ args.tvh_start > 0
          => /\ pc # "exit_2"
             /\ chnums = [i \in 1..Len(m3u_entries) |-> args.tvh_start + i]
    /\ files["m3u8"].written /\ args.tvh_offset = 0 /\ args.tvh_start = 0
          => chnums = <<>>

\* the numbering block of the number n
C26_Block(n) == (n - 1) \div args.tvh_offset

\* a group boundary lies between the entries i and j
C26_Boundary(i, j) ==
    \E k \in (i + 1)..j : m3u_entries[k].group_title # m3u_entries[k - 1].group_title

\* C26: with a per-group offset > 0 the numbers save_new_m3u writes increase
\* strictly along the entries, and two entries with a group boundary between
\* them never have numbers of the same block (n - 1) // offset.
C26_BlocksPerGroup ==
    (C8_Saved /\ args.tvh_offset > 0) =>
        /\ Len(chnums) = Len(m3u_entries)
        /\ \A i, j \in 1..Len(m3u_entries) :
              i < j => /\ chnums[i] < chnums[j]
                       /\ C26_Boundary(i, j) => C26_Block(chnums[i]) # C26_Block(chnums[j])

\* C26 witness: unsorted, offset 2, three entries of one group, one of the
\* other and one of the first again: 1, 2, 3 and 5 and 7
C26_Witness ==
    /\ C8_Saved
    /\ args.no_sort
    /\ args.tvh_offset = 2
    /\ Len(m3u_entries) = 5
    /\ m3u_entries[1].group_title = m3u_entries[3].group_title
    /\ m3u_entries[2].group_title = m3u_entries[3].group_title
    /\ m3u_entries[4].group_title # m3u_entries[3].group_title
    /\ m3u_entries[5].group_title = m3u_entries[3].group_title
    /\ chnums = <<1, 2, 3, 5, 7>>

\* save_new_m3u on the same entries when the same start and offset are
\* supplied the other way (the JSON configuration instead of the command
\* line, and back)
C28_OtherWay ==
    save_new_m3u(validate_args(args, [argv EXCEPT !.json_cfg = ~argv.json_cfg]), m3u_entries)

\* C28: for the same requested start and per-group offset, save_new_m3u writes
\* the same channel numbers (and ends the same way) whether the two were
\* supplied on the command line or through the JSON configuration.
C28_SameNumbersEitherWay ==
    (files["m3u8"].written /\ argv.tvh_start.given /\ argv.tvh_offset.given) =>
        /\ C28_OtherWay.chnums = chnums
        /\ C28_OtherWay.raised = (pc = "exit_2")

----------------------------------------------------------------------------
(* The playlist writer on retrieved playlists *)

\* a metadata line of a retrieved playlist: tvg-name B and group n, with or
\* without an identifier, a logo, the pass-through attributes and the trailing
\* name
SaveMetaLine(tvg_id, tvg_logo, extras, tail) ==
    <<"#EXTINF:", "-1">>
    \o AttrText("tvg-id=", tvg_id)
    \o AttrText("tvg-name=", S_B)
    \o AttrText("tvg-logo=", tvg_logo)
    \o AttrText("group-title=", S_n)
    \o (IF extras
        THEN AttrText("timeshift=", <<"1">>) \o AttrText("catchup-days=", <<"7">>)
             \o AttrText("catchup=", S_c) \o AttrText("catchup-source=", S_url_c)
        ELSE <<>>)
    \o (IF tail THEN <<",">> \o S_Bc ELSE <<>>)

SaveMetaLines ==
    {SaveMetaLine(tvg_id, tvg_logo, extras, tail) :
        tvg_id \in {None, S_b, S_B}, tvg_logo \in {None, S_b, S_url_c},
        extras \in BOOLEAN, tail \in BOOLEAN}

\* the playlists: one record, or a record before a record with every attribute
SaveResponses ==
    {[status_code |-> 200, items |-> <<>>, lines |-> <<<<"#EXTM3U">>, meta, S_url>> \o more] :
        meta \in SaveMetaLines,
        more \in {<<>>, <<SaveMetaLine(S_b, S_url_c, TRUE, TRUE), S_url_c>>}}

InitSave ==
    /\ IdleCall
    /\ pc = "load_m3u"
    /\ args \in {[DefaultArgs EXCEPT !.groups = {S_n}, !.no_sort = TRUE, !.no_epg = TRUE,
                                     !.preserve_case = pcase, !.http_for_images = http,
                                     !.no_tvg_id = noid, !.tvh_start = start] :
                    pcase \in BOOLEAN, http \in BOOLEAN, noid \in BOOLEAN,
                    start \in {0, 5}}
    /\ m3u_response \in SaveResponses
    /\ m3u_entries = <<>>
    /\ files = NoFiles
    /\ chnums = <<>>
    /\ NoGuideStage

NextSave == LoadM3u \/ FilterM3u \/ SaveNewM3u \/ SaveLog

SpecSave == InitSave /\ [][NextSave]_vars

\* the entries parse_m3u reads from the two lines written for entry i
C16_Reparsed(i) ==
    parse_m3u(<<<<"#EXTM3U">>, files["m3u8"].content[2 * i],
                files["m3u8"].content[2 * i + 1]>>, args.no_tvg_id)

C16_Visible(e) ==
    <<e.tvg_name, e.tvg_id, e.tvg_logo, e.group_title, e.name, e.url,
      e.timeshift, e.catchup_days, e.catchup, e.catchup_source>>

\* C16: for every entry save_new_m3u wrote, parse_m3u reads from its two lines
\* one valid entry with the same display name, identifier, logo, group label,
\* shown name, url and pass-through attributes.
C16_RoundTrip ==
    (files["m3u8"].written /\ pc # "exit_2") =>
        \A i \in 1..Len(m3u_entries) :
            /\ Len(C16_Reparsed(i)) = 1
            /\ C16_Visible(C16_Reparsed(i)[1]) = C16_Visible(m3u_entries[i])

----------------------------------------------------------------------------
(* The guide stage on drawn entry lists and source guides *)

\* the filtered lists: entries of the group n by their identifiers; the
\* entries without an identifier exist only when no_tvg_id is set
EpgEntry(tvg_name, tvg_id) == Entry(0, tvg_name, tvg_id, S_n, tvg_name, S_url)

EpgEntryLists ==
    {<<EpgEntry(S_B, S_b)>>, <<EpgEntry(S_B, S_B)>>,
     <<EpgEntry(S_B, S_b), EpgEntry(S_c, S_c)>>,
     <<EpgEntry(S_c, S_c), EpgEntry(S_B, S_b)>>,
     <<EpgEntry(S_B, S_b), EpgEntry(S_c, S_B)>>}

EpgEntryListsNoTvgId ==
    {<<EpgEntry(S_k, <<>>)>>, <<EpgEntry(S_B, S_b), EpgEntry(S_k, <<>>)>>,
     <<EpgEntry(S_k, None)>>}

\* the channel elements of the source guides
EpgChannelLists ==
    {<<>>, <<SourceChannel(S_b)>>, <<SourceChannel(S_B)>>,
     <<SourceChannel(S_B), SourceChannel(S_b)>>,
     <<SourceChannel(S_c), SourceChannel(S_b)>>,
     <<SourceChannel(S_b), SourceChannel(S_b)>>,
     <<SourceChannel(None), SourceChannel(S_b)>>}

\* the programme elements of the source guides, by their start relative to
\* the clock reading now and the range r (in hours): on and just outside the
\* two ends of the window, in the middle, and without a UTC offset
EpgProgrammeLists(now, r) ==
    LET lo == now - Hours(r)
        hi == now + Hours(r)
    IN  {<<>>,
         <<SourceProgramme(S_b, Aware(lo))>>,
         <<SourceProgramme(S_b, Aware(lo - 1))>>,
         <<SourceProgramme(S_B, Aware(hi))>>,
         <<SourceProgramme(S_B, Aware(hi + 1))>>,
         <<SourceProgramme(S_b, Aware(lo)), SourceProgramme(S_b, Aware(hi + 1))>>,
         <<SourceProgramme(S_b, Naive(now))>>,
         <<SourceProgramme(S_b, Aware(now)), SourceProgramme(S_b, NoStart)>>,
         <<SourceProgramme(S_b, Aware(lo)), SourceProgramme(S_c, Aware(now))>>,
         <<SourceProgramme(S_c, Aware(hi)), SourceProgramme(S_b, Aware(now))>>,
         <<SourceProgramme(S_B, Aware(now)), SourceProgramme(S_b, Aware(now))>>,
         <<SourceProgramme(None, Aware(now))>>,
         <<SourceProgramme(S_b, Aware(lo)), SourceProgramme(S_b, Aware(lo))>>,
         <<[SourceProgramme(S_b, Aware(now)) EXCEPT
               !.children = <<SubElement("title", <<>>),
                              SubElement("credits",
                                  <<SubElement("actor", <<>>)>>)>>]>>,
         <<[SourceProgramme(S_b, Aware(hi)) EXCEPT
               !.children = <<SubElement("credits",
                                  <<SubElement("actor",
                                        <<SubElement("image", <<>>)>>)>>)>>]>>}

\* the clocks: half past ten, not advancing during the guide stage, or
\* advancing before the first or before the second range check
EpgClocks == {[now |-> 21, tick_at |-> t] : t \in {0, 2, 3}}

\* the runs that reconcile identifiers, and the runs with entries without one
EpgArgs ==
    {[DefaultArgs EXCEPT !.groups = {S_n}, !.group_idx = <<S_n>>, !.no_sort = TRUE,
                         !.range = 1, !.preserve_case = pcase, !.xml_sort_type = xs] :
        pcase \in BOOLEAN, xs \in {"none", "alpha", "m3u"}}

\* a range of hours that holds more than 167 programmes of two hours
WideRange == 400

EpgArgsNoTvgId ==
    {[DefaultArgs EXCEPT !.groups = {S_n}, !.group_idx = <<S_n>>, !.no_sort = TRUE,
                         !.range = r, !.no_tvg_id = TRUE, !.force_epg = force,
                         !.xml_sort_type = xs] :
        r \in {1, WideRange}, force \in BOOLEAN, xs \in {"none", "m3u"}}

InitEpg ==
    /\ IdleCall
    /\ pc = "filter_m3u_entries"
    /\ m3u_response = NoResponse
    /\ files = NoFiles
    /\ chnums = <<>>
    /\ clock \in EpgClocks
    /\ \/ /\ args \in EpgArgs
          /\ m3u_entries \in {Numbered(l) : l \in EpgEntryLists}
          /\ epg_response \in
                {[status_code |-> 200, guide |-> Guide(TRUE, chs, progs)] :
                    chs \in EpgChannelLists,
                    progs \in EpgProgrammeLists(clock.now, 1)}
       \/ /\ args \in EpgArgsNoTvgId
          /\ m3u_entries \in {Numbered(l) : l \in EpgEntryListsNoTvgId}
          /\ epg_response \in
                {[status_code |-> 200, guide |-> Guide(TRUE, chs, progs)] :
                    chs \in {<<>>, <<SourceChannel(S_b)>>},
                    progs \in {<<>>, <<SourceProgramme(S_b, Aware(clock.now))>>}}
       \/ /\ args \in EpgArgs
          /\ m3u_entries = Numbered(<<EpgEntry(S_B, S_b)>>)
          /\ epg_response \in
                {[status_code |-> 200, guide |-> NoGuide],
                 [status_code |-> 404, guide |-> NoGuide]}
    /\ original_tree = NoGuide
    /\ xml_tree = NoTree

NextEpg == FilterM3u \/ SaveNewM3u \/ LoadEpg \/ CreateNewEpg \/ SaveNewEpg \/ SaveLog

SpecEpg == InitEpg /\ [][NextEpg]_vars

\* create_new_epg has returned a tree
C5_TreeReturned == pc \in {"save_new_epg", "save_log", "done"} /\ ~xml_tree.is_none

\* C5: whenever create_new_epg returns a tree, every programme element of the
\* tree has a channel attribute equal to the id of a channel element of the
\* tree.
C5_ProgrammeHasChannel ==
    C5_TreeReturned =>
        \A i \in 1..Len(xml_tree.programmes) :
            \E j \in 1..Len(xml_tree.channels) :
                xml_tree.channels[j].id = xml_tree.programmes[i].channel

\* C6: whenever create_new_epg returns a tree, every channel element copied
\* from the source guide has an id that equals the identifier of an entry of
\* the filtered list: exactly when preserve_case is set, case-normalized
\* otherwise.
C6_ChannelHasEntry ==
    C5_TreeReturned =>
        \A j \in 1..Len(xml_tree.channels) :
            xml_tree.channels[j].src # 0 =>
                \E i \in 1..Len(m3u_entries) :
                    IF args.preserve_case
                    THEN m3u_entries[i].tvg_id = xml_tree.channels[j].id
                    ELSE str_lower(m3u_entries[i].tvg_id) = str_lower(xml_tree.channels[j].id)

\* the source programme p belongs to a matched entry: the identifier of an
\* entry (of the entries with the same identifier in lowercase, the last
\* one), under the case rule, is its channel attribute as create_new_epg left
\* it in the source tree
C7_Matched(p) ==
    \E i \in 1..Len(m3u_entries) :
        /\ ~has_no_tvg_id(m3u_entries[i])
        /\ \A j \in (i + 1)..Len(m3u_entries) :
              str_lower(m3u_entries[j].tvg_id) # str_lower(m3u_entries[i].tvg_id)
        /\ p.channel = (IF ~args.preserve_case THEN str_lower(m3u_entries[i].tvg_id)
                        ELSE m3u_entries[i].tvg_id)

C7_Copied(p) ==
    \E k \in 1..Len(xml_tree.programmes) : xml_tree.programmes[k].src = p.src

\* the clock readings of the range checks of p
C7_Readings(p) ==
    {xml_tree.checks[k].now : k \in {n \in 1..Len(xml_tree.checks) :
                                        xml_tree.checks[n].src = p.src}}

\* C7: a source programme of a matched entry is in the returned tree if and
\* only if its start ts satisfies now - range <= ts <= now + range, both ends
\* included, now being the clock reading of its range check; and every copied
\* programme of the tree lies in that window.
C7_CopiedIffInWindow ==
    C5_TreeReturned =>
        /\ \A i \in 1..Len(original_tree.programmes) :
              LET p == original_tree.programmes[i]
              IN  C7_Matched(p) =>
                      /\ Cardinality(C7_Readings(p)) = 1
                      /\ C7_Copied(p) <=>
                            \A now \in C7_Readings(p) :
                                /\ now - Hours(args.range) <= p.start.t
                                /\ p.start.t <= now + Hours(args.range)
        /\ \A k \in 1..Len(xml_tree.programmes) :
              LET q == xml_tree.programmes[k]
              IN  q.src # 0 =>
                      /\ q.now - Hours(args.range) <= q.start.t
                      /\ q.start.t <= q.now + Hours(args.range)
                      /\ C7_Matched(original_tree.programmes[q.src])

\* C7 witness: the tree holds a programme that starts exactly range hours
\* before the clock reading of its check, and a programme of the same entry
\* that starts after the end of the window was left out
C7_Witness ==
    /\ C5_TreeReturned
    /\ \E k \in 1..Len(xml_tree.programmes) :
          /\ xml_tree.programmes[k].src # 0
          /\ xml_tree.programmes[k].start.t = xml_tree.programmes[k].now - Hours(args.range)
    /\ \E i \in 1..Len(original_tree.programmes) :
          LET p == original_tree.programmes[i]
          IN  /\ C7_Matched(p)
              /\ ~C7_Copied(p)
              /\ \A now \in C7_Readings(p) : p.start.t > now + Hours(args.range)

\* C13: with preserve_case not set, whenever create_new_epg returns a tree, no
\* two channel elements of the tree have the same id.
C13_ChannelIdOnce ==
    (C5_TreeReturned /\ ~args.preserve_case) =>
        \A j, k \in 1..Len(xml_tree.channels) :
            xml_tree.channels[j].id = xml_tree.channels[k].id => j = k

\* the guide stage is over: the playlist was written without an exception, the
\* source guide was retrieved and create_new_epg was called
C14_GuideStageOver ==
    /\ files["m3u8"].written
    /\ ~save_new_m3u(args, m3u_entries).raised
    /\ epg_response.status_code = 200
    /\ pc \notin {"load_epg", "create_new_epg"}

\* C14: once create_new_epg was called, the run is not in the fatal exception
\* handler; when no tree was returned (no root element, or an exception), no
\* guide file is written and the run goes on to save_log; and the playlist
\* file holds what save_new_m3u wrote.
C14_GuideFailureContained ==
    C14_GuideStageOver =>
        /\ pc # "exit_2"
        /\ xml_tree.is_none => (pc \in {"save_log", "done"} /\ ~files["xml"].written)
        /\ files["m3u8"] = Written(save_new_m3u(args, m3u_entries).m3u)

\* the channel elements of the tree made from the display name of entry i
C17_Synthetic(i) ==
    {j \in 1..Len(xml_tree.channels) :
        /\ xml_tree.channels[j].src = 0
        /\ xml_tree.channels[j].id = m3u_entries[i].tvg_name
        /\ xml_tree.channels[j].display_name = m3u_entries[i].tvg_name}

\* C17: once create_new_epg was called on a guide with a root element: with
\* no_tvg_id and force_epg it returned a tree that holds, for every entry
\* whose identifier is absent or empty, a channel element whose id and
\* display-name are the entry's display name; with either option off the tree
\* holds no such channel element.
C17_SyntheticChannels ==
    (C14_GuideStageOver /\ epg_response.guide.has_root) =>
        IF args.no_tvg_id /\ args.force_epg
        THEN /\ ~xml_tree.is_none
             /\ \A i \in 1..Len(m3u_entries) :
                   m3u_entries[i].tvg_id \in {None, <<>>} => C17_Synthetic(i) # {}
        ELSE \A j \in 1..Len(xml_tree.channels) : xml_tree.channels[j].src # 0

\* create_new_epg has returned a tree in synthesis mode
C18_Synthesis == C5_TreeReturned /\ args.no_tvg_id /\ args.force_epg

\* the programme elements of the tree made for entry i, in document order
C18_Programmes(i) ==
    LET OfEntry(p) == p.src = 0 /\ p.channel = m3u_entries[i].tvg_name
    IN  SelectSeq(xml_tree.programmes, OfEntry)

C18_InWindow(timestamp, now) ==
    now - Hours(args.range) <= timestamp /\ timestamp <= now + Hours(args.range)

\* what C18 says of the programmes ps of an entry apart from their place in
\* time: at most 167, each of two hours and starting when the one before
\* stops, each with the entry's display name as channel, title and desc, and
\* none left out while the window had room
C18_Blocks(ps, tvg_name) ==
    /\ Len(ps) <= 167
    /\ \A k \in 1..Len(ps) :
          /\ ps[k].stop.t = ps[k].start.t + Hours(2)
          /\ k > 1 => ps[k].start.t = ps[k - 1].stop.t
          /\ ps[k].channel = tvg_name /\ ps[k].title = tvg_name /\ ps[k].desc = tvg_name
    /\ Len(ps) > 0 =>
          \/ Len(ps) = 167
          \/ ~C18_InWindow(ps[Len(ps)].ts + Hours(2), ps[Len(ps)].now)

C19_Reported(i) ==
    /\ files["no_epg_channels.txt"].written
    /\ \E k \in 1..Len(files["no_epg_channels.txt"].content) :
          files["no_epg_channels.txt"].content[k] =
              <<Fmt(m3u_entries[i].tvg_name), Fmt(m3u_entries[i].tvg_id)>>

\* the source guide holds a programme of the identifier of entry i: compared
\* as written when preserve_case is set, case-normalized otherwise
C19_HasProgrammeList(i) ==
    /\ ~has_no_tvg_id(m3u_entries[i])
    /\ \E k \in 1..Len(epg_response.guide.programmes) :
          LET channel == epg_response.guide.programmes[k].channel
          IN  /\ channel # None
              /\ IF args.preserve_case THEN channel = m3u_entries[i].tvg_id
                 ELSE str_lower(channel) = str_lower(m3u_entries[i].tvg_id)

\* C19: when create_new_epg returns a tree, an entry is in the 'no guide
\* data' report if and only if it has no identifier or no programme list in
\* the source guide, and no synthetic programmes were made for it.
C19_ReportIffNoGuideData ==
    C5_TreeReturned =>
        \A i \in 1..Len(m3u_entries) :
            C19_Reported(i) <=>
                (~C19_HasProgrammeList(i) /\ C18_Programmes(i) = <<>>)

\* the tree create_new_epg returns for the same guide and entries when no
\* channel sorting is asked for
C21_Unsorted ==
    create_new_epg([args EXCEPT !.xml_sort_type = "none"], epg_response.guide,
                   m3u_entries, clock).tree

C21_Node(ch) == <<ch.id, ch.src, ch.display_name, ch.icon>>

\* C21: once create_new_epg was called on a guide with a root element, it
\* returned a tree whenever it returns one without channel sorting; the
\* channel elements of the tree are those of the unsorted tree; and they are
\* in alphabetical order of id (alpha), in the order of their ids in the
\* keyset (m3u), or in the order of the unsorted tree (any other value).
C21_ChannelOrder ==
    (C14_GuideStageOver /\ epg_response.guide.has_root /\ ~C21_Unsorted.is_none) =>
        LET chs == xml_tree.channels
            base == C21_Unsorted.channels
            unique == tvg_id_unique_entries(m3u_entries)
        IN  /\ ~xml_tree.is_none
            /\ Len(chs) = Len(base)
            /\ \A b \in 1..Len(base) :
                  Cardinality({j \in 1..Len(chs) : C21_Node(chs[j]) = C21_Node(base[b])})
                      = Cardinality({j \in 1..Len(base) :
                                        C21_Node(base[j]) = C21_Node(base[b])})
            /\ \A j, k \in 1..Len(chs) :
                  j < k =>
                      CASE args.xml_sort_type = "alpha" -> ~str_lt(chs[k].id, chs[j].id)
                        [] args.xml_sort_type = "m3u" ->
                              /\ m3u_index(unique, chs[j].id) >= 0
                              /\ m3u_index(unique, chs[j].id) <= m3u_index(unique, chs[k].id)
                        [] OTHER -> C21_Node(chs[j]) = C21_Node(base[j])

\* C22: when create_new_epg returns a tree, the latest programme start
\* timestamp it reports is not before the start of any source programme it
\* examined, nor before the timestamp of any programme it synthesized.
C22_LatestStartIsMax ==
    C5_TreeReturned =>
        /\ \A n \in 1..Len(xml_tree.checks) :
              original_tree.programmes[xml_tree.checks[n].src].start.t
                  <= xml_tree.max_programme_start_timestamp
        /\ \A k \in 1..Len(xml_tree.programmes) :
              xml_tree.programmes[k].src = 0 =>
                  xml_tree.programmes[k].ts <= xml_tree.max_programme_start_timestamp

\* C23: once create_new_epg has run, the parsed source guide is what was
\* retrieved: every channel and programme element is as it was.
C23_SourceTreeUnchanged ==
    (C14_GuideStageOver /\ pc # "exit_2") => original_tree = epg_response.guide

\* C24: every programme element copied from the source guide has the child
\* elements of its source element, each with its tag, text, attributes and
\* its own child elements, at every depth.
C24_DeepCopy ==
    C5_TreeReturned =>
        \A k \in 1..Len(xml_tree.programmes) :
            xml_tree.programmes[k].src # 0 =>
                xml_tree.programmes[k].children =
                    original_tree.programmes[xml_tree.programmes[k].src].children

\* C25: within one run of create_new_epg every range check is made with the
\* same clock reading, and two source programmes with the same start that
\* were both examined are both copied or both left out.
C25_WindowOncePerRun ==
    C5_TreeReturned =>
        \A n, m \in 1..Len(xml_tree.checks) :
            LET p == original_tree.programmes[xml_tree.checks[n].src]
                q == original_tree.programmes[xml_tree.checks[m].src]
            IN  /\ xml_tree.checks[n].now = xml_tree.checks[m].now
                /\ p.start.t = q.start.t => (C7_Copied(p) <=> C7_Copied(q))

\* the channel attribute of programme i of the retrieved guide is, letter case
\* apart, the identifier of an entry
C29_Matched(i) ==
    LET channel == epg_response.guide.programmes[i].channel
    IN  /\ channel # None
        /\ \E n \in 1..Len(m3u_entries) :
              /\ ~has_no_tvg_id(m3u_entries[n])
              /\ str_lower(m3u_entries[n].tvg_id) = str_lower(channel)

\* C29: with preserve_case not set, a programme of the retrieved guide whose
\* channel attribute is an entry's identifier, letter case apart, is examined
\* and copied if and only if it starts within the window, whether or not a
\* channel element was made for the new guide.
C29_CopyWithoutChannels ==
    (C5_TreeReturned /\ ~args.preserve_case) =>
        \A i \in 1..Len(epg_response.guide.programmes) :
            LET p == original_tree.programmes[i]
            IN  C29_Matched(i) =>
                    /\ Cardinality(C7_Readings(p)) = 1
                    /\ C7_Copied(p) <=>
                          \A now \in C7_Readings(p) :
                              /\ now - Hours(args.range) <= p.start.t
                              /\ p.start.t <= now + Hours(args.range)

----------------------------------------------------------------------------
(* The whole run of main *)

\* the playlists of whole runs: records B (group n) and c (group s)
RunResponses ==
    {[status_code |-> 200, items |-> items, lines |-> <<<<"#EXTM3U">>>> \o ItemsLines(items)] :
        items \in SeqsUpTo({RecordItem("-1", S_B, S_b, S_n, TRUE),
                            RecordItem("-1", S_c, S_c, S_s, TRUE)}, MaxItems)}

\* the configured groups of whole runs: the groups of the records, or a group
\* of no record, so that no entry survives the filter
RunGroups == {<<S_s, S_n>>, <<S_k>>}

Init ==
    /\ call = NoCall
    /\ ret = NoRet
    /\ pc = "validate_args"
    /\ argv \in {NoArgv, Argv(FALSE, FALSE, NotGiven, NotGiven),
                 Argv(TRUE, FALSE, Given(1), Given(10)),
                 Argv(TRUE, TRUE, Given(2), NotGiven)}
    /\ args \in {[DefaultArgs EXCEPT !.groups = {gi[i] : i \in 1..Len(gi)}, !.group_idx = gi,
                                     !.range = 1, !.no_sort = ns, !.no_epg = ne,
                                     !.preserve_case = pcase] :
                    gi \in RunGroups, ns \in BOOLEAN, ne \in BOOLEAN, pcase \in BOOLEAN}
    /\ m3u_response \in RunResponses
    /\ m3u_entries = <<>>
    /\ files = NoFiles
    /\ chnums = <<>>
    /\ clock \in EpgClocks
    /\ epg_response \in
          {[status_code |-> 404, guide |-> NoGuide],
           [status_code |-> 200, guide |-> NoGuide],
           [status_code |-> 200,
            guide |-> Guide(TRUE, <<SourceChannel(S_B), SourceChannel(S_c)>>,
                            <<SourceProgramme(S_B, Aware(clock.now)),
                              SourceProgramme(S_c, Aware(clock.now + Hours(2)))>>)]}
    /\ original_tree = NoGuide
    /\ xml_tree = NoTree

Next ==
    \/ ValidateArgs
    \/ LoadM3u
    \/ FilterM3u
    \/ SortM3u
    \/ SaveNewM3u
    \/ LoadEpg
    \/ CreateNewEpg
    \/ SaveNewEpg
    \/ SaveLog

Spec == Init /\ [][Next]_vars

\* the place of a position of main in the order of its stages
C30_Rank(at) ==
    CASE at = "validate_args" -> 0
      [] at = "load_m3u" -> 1
      [] at = "filter_m3u_entries" -> 2
      [] at = "sort_m3u_entries" -> 3
      [] at = "save_new_m3u" -> 4
      [] at = "load_epg" -> 5
      [] at = "create_new_epg" -> 6
      [] at = "save_new_epg" -> 7
      [] at = "save_log" -> 8
      [] OTHER -> 9

\* C30: in every run the stages follow one another in the order filter, sort
\* (exactly when no_sort is not set), write playlist, retrieve guide, reconcile
\* guide, write guide, none twice and none after a later one; the guide file
\* is written only after the playlist file; and when no entry survives the
\* filter the run goes on to its end with no playlist file written and no
\* guide retrieved, reconciled or written.
C30_StagesInOrder ==
    [][/\ C30_Rank(pc') > C30_Rank(pc)
       /\ pc' = "sort_m3u_entries" => (pc = "filter_m3u_entries" /\ ~args.no_sort)
       /\ pc' = "save_new_m3u" =>
              pc = (IF args.no_sort THEN "filter_m3u_entries" ELSE "sort_m3u_entries")
       /\ pc' = "load_epg" => pc = "save_new_m3u"
       /\ pc' = "create_new_epg" => pc = "load_epg"
       /\ pc' = "save_new_epg" => pc = "create_new_epg"
       /\ (files'["xml"].written /\ ~files["xml"].written) =>
              (pc = "save_new_epg" /\ files["m3u8"].written)
       /\ (pc = "filter_m3u_entries" /\ pc' # "exit_2" /\ Len(m3u_entries') = 0) =>
              pc' = "save_log"
       /\ (pc' \in {"save_log", "done"} /\ Len(m3u_entries') = 0) =>
              /\ ~files'["m3u8"].written /\ ~files'["channels.txt"].written
              /\ ~files'["xml"].written /\ ~files'["no_epg_channels.txt"].written
              /\ original_tree' = NoGuide /\ xml_tree' = NoTree
    ]_vars

\* C30 witness: a run with every stage has ended: the playlist was sorted and
\* written, the guide retrieved, reconciled and written
C30_Witness ==
    /\ pc = "done"
    /\ ~args.no_sort
    /\ Len(m3u_entries) > 0
    /\ files["m3u8"].written
    /\ original_tree # NoGuide
    /\ ~xml_tree.is_none
    /\ files["xml"].written

----------------------------------------------------------------------------
(* Calls of the helper functions on drawn inputs *)

\* the rule strings the matcher is tried with
MatcherRules == {S_bc, S_bbc, S_b_c, S_dot, S_cc, S_B}

IdlePipeline ==
    /\ argv = NoArgv
    /\ pc = "idle"
    /\ args = DefaultArgs
    /\ m3u_response = NoResponse
    /\ m3u_entries = <<>>
    /\ files = NoFiles
    /\ chnums = <<>>
    /\ NoGuideStage

InitMatcher ==
    /\ IdlePipeline
    /\ call \in {[fn |-> "is_item_matched", item_list |-> l, item_name |-> n] :
                    l \in SUBSET MatcherRules, n \in StrsUpTo(MaxStrLen)}
    /\ ret = NoRet

CallIsItemMatched ==
    /\ call.fn = "is_item_matched"
    /\ ~ret.returned
    /\ ret' = Return(is_item_matched(call.item_list, call.item_name))
    /\ UNCHANGED <<argv, call, pc, args, m3u_response, m3u_entries, files, chnums>>
    /\ UNCHANGED guide_vars

SpecMatcher == InitMatcher /\ [][CallIsItemMatched]_vars

\* the rules and the exact-compare values the transform engine is tried with
TransformRules == {Rule(S_b, S_c), Rule(S_bdot, S_B), Rule(S_bc, <<>>), Rule(S_B, S_bc)}

TransformLists ==
    {<<>>} \cup {<<r>> : r \in TransformRules}
           \cup {<<r1, r2>> : r1 \in TransformRules, r2 \in TransformRules}

CompareValues == {None, S_b, S_B, S_bc}

InitTransform ==
    /\ IdlePipeline
    /\ call \in {[fn |-> "transform_string_value", string_value |-> v,
                  compare_value |-> c, transforms |-> t] :
                    v \in StrsUpTo(MaxStrLen) \cup {None},
                    c \in CompareValues, t \in TransformLists}
    /\ ret = NoRet

CallTransformStringValue ==
    /\ call.fn = "transform_string_value"
    /\ ~ret.returned
    /\ ret' = Return(transform_string_value(call.string_value, call.compare_value,
                                            call.transforms))
    /\ UNCHANGED <<argv, call, pc, args, m3u_response, m3u_entries, files, chnums>>
    /\ UNCHANGED guide_vars

SpecTransform == InitTransform /\ [][CallTransformStringValue]_vars

\* the entry lists the keyset is built from: entries by their identifiers,
\* numbered in list order; None is the identifier of an entry without a tvg-id
\* attribute
MaxKeyed == 3

KeyedIds == {S_b, S_B, S_c, S_bc, S_Bc, <<>>, None}

KeyedLists ==
    {Numbered([i \in 1..Len(ids) |-> EpgEntry(S_B, ids[i])]) :
        ids \in SeqsUpTo(KeyedIds, MaxKeyed)}

InitKeyset ==
    /\ IdlePipeline
    /\ call \in {[fn |-> "tvg_id_unique_entries", m3u_entries |-> l] : l \in KeyedLists}
    /\ ret = NoRet

\* tvg_id_unique_entries = {e.tvg_id.lower(): e for e in m3u_entries}.values();
\* None has no lower(): AttributeError
CallTvgIdUniqueEntries ==
    /\ call.fn = "tvg_id_unique_entries"
    /\ ~ret.returned
    /\ ret' = IF \E i \in 1..Len(call.m3u_entries) : call.m3u_entries[i].tvg_id = None
              THEN Return([raised |-> TRUE, entries |-> <<>>])
              ELSE Return([raised |-> FALSE,
                           entries |-> tvg_id_unique_entries(call.m3u_entries)])
    /\ UNCHANGED <<argv, call, pc, args, m3u_response, m3u_entries, files, chnums>>
    /\ UNCHANGED guide_vars

SpecKeyset == InitKeyset /\ [][CallTvgIdUniqueEntries]_vars

\* the keyset was built
C20_Built == call.fn = "tvg_id_unique_entries" /\ ret.returned /\ ~ret.value.raised

\* the list positions of the entries that carry the identifier of entry e
C20_Carriers(e) ==
    {i \in 1..Len(call.m3u_entries) :
        str_lower(call.m3u_entries[i].tvg_id) = str_lower(e.tvg_id)}

\* C20: the keyset holds one entry for every case-normalized identifier of
\* the list and no two for the same; the entry of an identifier is the last
\* entry of the list that carries it; and the entries stand in the order in
\* which their identifiers first occur in the list.
C20_KeysetLastWins ==
    C20_Built =>
        LET unique == ret.value.entries
            Max(S) == CHOOSE x \in S : \A y \in S : y <= x
        IN  /\ \A i \in 1..Len(call.m3u_entries) :
                  \E k \in 1..Len(unique) :
                      str_lower(unique[k].tvg_id) = str_lower(call.m3u_entries[i].tvg_id)
            /\ \A k, l \in 1..Len(unique) :
                  str_lower(unique[k].tvg_id) = str_lower(unique[l].tvg_id) => k = l
            /\ \A k \in 1..Len(unique) :
                  /\ C20_Carriers(unique[k]) # {}
                  /\ unique[k] = call.m3u_entries[Max(C20_Carriers(unique[k]))]
            /\ \A k, l \in 1..Len(unique) :
                  k < l => SetMin(C20_Carriers(unique[k])) < SetMin(C20_Carriers(unique[l]))

\* C20 witness: a keyset of two entries built from three, where the first
\* key stands for the first and the third entry of the list and holds the
\* third
C20_Witness ==
    /\ C20_Built
    /\ Len(call.m3u_entries) = 3
    /\ Len(ret.value.entries) = 2
    /\ ret.value.entries[1].uid = 3
    /\ ret.value.entries[2].uid = 2
    /\ call.m3u_entries[1].tvg_id # call.m3u_entries[3].tvg_id

----------------------------------------------------------------------------
(* Claims about the matcher and the transform engine *)

\* C3: is_item_matched(ruleList, candidate) is true exactly when ruleList is
\* non-empty and candidate is a verbatim member of it or some member, read as a
\* case-insensitive regular expression, is found in candidate; "BBC" against
\* {"bbc"} is no verbatim member and is matched all the same (by the regex
\* stage); the empty ruleList matches nothing.
C3_MatcherPolicy ==
    (call.fn = "is_item_matched" /\ ret.returned) =>
        /\ ret.value <=>
              /\ call.item_list # {}
              /\ \/ call.item_name \in call.item_list
                 \/ \E rule \in call.item_list : re_search(rule, call.item_name, TRUE)
        /\ (call.item_list = {}) => ~ret.value
        /\ (call.item_name = S_BBC /\ call.item_list = {S_bbc}) =>
              (S_BBC \notin call.item_list /\ ret.value)

\* C3 witness: "BBC" has been matched against {"bbc"}
C3_Witness ==
    /\ call.fn = "is_item_matched"
    /\ call.item_name = S_BBC
    /\ call.item_list = {S_bbc}
    /\ ret.returned
    /\ ret.value

\* what C4 says one rule does to a value
C4_ClaimedRule(value, compare, rule) ==
    IF compare # None /\ compare = rule.src_value THEN rule.replacement_value
    ELSE IF str_in(rule.src_value, value)
    THEN str_replace(value, rule.src_value, rule.replacement_value)
    ELSE re_sub(rule.src_value, rule.replacement_value, value)

\* what one rule does to a value: with an exact-compare value only the whole
\* value replacement is tried
C4_AmendedRule(value, compare, rule) ==
    IF compare # None
    THEN (IF compare = rule.src_value THEN rule.replacement_value ELSE value)
    ELSE IF str_in(rule.src_value, value)
    THEN str_replace(value, rule.src_value, rule.replacement_value)
    ELSE re_sub(rule.src_value, rule.replacement_value, value)

\* the calls C4 is about: a string value (an identifier may be None only when an
\* exact-compare value comes with it)
C4_Covered ==
    /\ call.fn = "transform_string_value"
    /\ ret.returned
    /\ Len(call.transforms) > 0
    /\ call.string_value # None \/ call.compare_value # None

\* C4 as stated: whole value if the exact-compare value equals sourceKey, else
\* the literal substring, else the regular expression, also when an
\* exact-compare value was supplied and differs from sourceKey.
C4_AsStated ==
    (C4_Covered /\ call.string_value # None /\ Len(call.transforms) = 1) =>
        ret.value = C4_ClaimedRule(call.string_value, call.compare_value,
                                   call.transforms[1])

\* C4 amended: with an exact-compare value, a rule replaces the whole value when
\* the exact-compare value equals sourceKey and leaves the value alone
\* otherwise; without one, the literal substring is replaced if sourceKey occurs
\* in the value, else sourceKey is applied as a regular expression; the rules
\* apply in order, each to the result of the one before.
C4_TransformPerRule ==
    C4_Covered =>
        LET first == C4_AmendedRule(call.string_value, call.compare_value,
                                    call.transforms[1])
        IN  ret.value = IF Len(call.transforms) = 1 THEN first
                        ELSE C4_AmendedRule(first, call.compare_value,
                                            call.transforms[2])

\* C4 witness: an exact-compare value that differs from sourceKey was supplied,
\* sourceKey occurs in the value, and the value came back unchanged
C4_Witness ==
    /\ C4_Covered
    /\ Len(call.transforms) = 1
    /\ call.compare_value # None
    /\ call.string_value # None
    /\ call.compare_value # call.transforms[1].src_value
    /\ str_in(call.transforms[1].src_value, call.string_value)
    /\ ret.value = call.string_value
    /\ ret.value # C4_ClaimedRule(call.string_value, call.compare_value,
                                  call.transforms[1])

====
